---------------------------- MODULE Spec2Model ----------------------------
(***************************************************************************)
(* GRASP-it: classification of the semantic relation of a genitive "A de   *)
(* B".  The module models the similarity function, the rule fusion loop,   *)
(* the signature extractor with its per-term memo, and the classifier     *)
(* (train / predict) of src/grasp_it.py and src/old/grasp_it.py.           *)
(*                                                                         *)
(* Python floats are IEEE 754 binary64 numbers.  They are modelled bit for *)
(* bit: a float is a 53-bit mantissa and an exponent, and every operation  *)
(* rounds to nearest, ties to even.  Mantissas do not fit the integers of  *)
(* the model checker, so naturals are little-endian sequences of limbs.    *)
(***************************************************************************)
EXTENDS Integers, Sequences, FiniteSets, TLC

(***************************************************************************)
(* Natural numbers of arbitrary size: little-endian limbs in base 2^15,    *)
(* without most significant zero limbs; zero is the empty sequence.        *)
(***************************************************************************)
Base == 2^15

Max(x, y) == IF x >= y THEN x ELSE y

MaxOf(S) == CHOOSE i \in S : \A j \in S : j <= i

Limb(a, i) == IF i <= Len(a) THEN a[i] ELSE 0

\* a without its most significant zero limbs
BNorm(a) ==
    LET nz == {i \in 1..Len(a) : a[i] /= 0}
    IN  IF nz = {} THEN <<>> ELSE SubSeq(a, 1, MaxOf(nz))

\* a + b.  s holds the limb sums; a carry enters limb i when a lower limb
\* overflows and every limb in between is full.
BAdd(a, b) ==
    LET n == Max(Len(a), Len(b)) + 1
        s == [i \in 1..n |-> Limb(a, i) + Limb(b, i)] \o <<>>
        carry(i) == \E j \in 1..(i - 1) :
                        s[j] >= Base /\ \A k \in (j + 1)..(i - 1) : s[k] = Base - 1
    IN  BNorm([i \in 1..n |-> (s[i] + (IF carry(i) THEN 1 ELSE 0)) % Base])

\* a - b for a >= b.  d holds the limb differences; a borrow enters limb i
\* when a lower limb is negative and every limb in between is zero.
BSub(a, b) ==
    LET d == [i \in 1..Len(a) |-> a[i] - Limb(b, i)] \o <<>>
        borrow(i) == \E j \in 1..(i - 1) :
                         d[j] < 0 /\ \A k \in (j + 1)..(i - 1) : d[k] = 0
    IN  BNorm([i \in 1..Len(a) |->
                   (d[i] - (IF borrow(i) THEN 1 ELSE 0) + Base) % Base])

\* -1, 0, 1 as a < b, a = b, a > b
BCmp(a, b) ==
    IF Len(a) < Len(b) THEN -1
    ELSE IF Len(a) > Len(b) THEN 1
    ELSE LET diff == {i \in 1..Len(a) : a[i] /= b[i]}
         IN  IF diff = {} THEN 0
             ELSE IF a[MaxOf(diff)] < b[MaxOf(diff)] THEN -1
             ELSE 1

\* a * k for 0 <= k < Base: the low halves of the limb products, plus their
\* high halves one limb up
BMulSmall(a, k) ==
    IF k = 0 THEN <<>>
    ELSE BAdd(BNorm([i \in 1..Len(a) |-> (a[i] * k) % Base]),
              BNorm(<<0>> \o [i \in 1..Len(a) |-> (a[i] * k) \div Base]))

Zeros(n) == [i \in 1..n |-> 0]

\* a * b, one limb of b at a time; acc is the sum so far
RECURSIVE BMulFrom(_, _, _, _)
BMulFrom(a, b, j, acc) ==
    IF j > Len(b) \/ Len(acc) < 0 THEN acc
    ELSE BMulFrom(a, b, j + 1, BAdd(acc, Zeros(j - 1) \o BMulSmall(a, b[j])))

BMul(a, b) == IF a = <<>> \/ b = <<>> THEN <<>> ELSE BMulFrom(a, b, 1, <<>>)

\* a * 2^s: every limb gives its low bits to one limb of the result and its
\* high bits to the next
BShl(a, s) ==
    LET d == s \div 15
        r == s % 15
    IN  BNorm([i \in 1..(Len(a) + d + 1) |->
                  IF i <= d THEN 0
                  ELSE ((Limb(a, i - d) * 2^r) % Base)
                       + (IF i - d >= 2 THEN (a[i - d - 1] * 2^r) \div Base ELSE 0)])

\* floor(a / 2^s)
BShr(a, s) ==
    LET d == s \div 15
        r == s % 15
        n == Len(a) - d
    IN  IF n <= 0 THEN <<>>
        ELSE BNorm([i \in 1..n |->
                 (a[i + d] \div 2^r) + (Limb(a, i + d + 1) % 2^r) * 2^(15 - r)])

\* The number of bits of a limb
Bits(x) == Cardinality({k \in 0..14 : 2^k <= x})

BitLen(a) == IF a = <<>> THEN 0 ELSE 15 * (Len(a) - 1) + Bits(a[Len(a)])

RECURSIVE BFromNat(_)
BFromNat(n) == IF n = 0 THEN <<>> ELSE <<n % Base>> \o BFromNat(n \div Base)

BOdd(a) == a /= <<>> /\ a[1] % 2 = 1

BOne == <<1>>

(***************************************************************************)
(* Python floats (IEEE 754 binary64), non-negative: the value m * 2^e with *)
(* m a 53-bit natural (2^52 <= m < 2^53), or zero.  The values met here    *)
(* stay far from the overflow and subnormal ranges.                        *)
(***************************************************************************)
FZero == [m |-> <<>>, e |-> 0]

\* The float nearest to (N + t) * 2^e, 0 <= t < 1, t > 0 iff sticky; round to
\* nearest, ties to even.  A sticky N has more than 54 bits.
FRound(N, e, sticky) ==
    IF N = <<>> THEN FZero
    ELSE LET L == BitLen(N)
         IN  IF L <= 53 THEN [m |-> BNorm(BShl(N, 53 - L)), e |-> e - (53 - L)]
             ELSE LET s == L - 53
                      q == BShr(N, s)
                      rem == BSub(N, BNorm(BShl(q, s)))
                      half == BNorm(BShl(BOne, s - 1))
                      c == BCmp(rem, half)
                      up == c > 0 \/ (c = 0 /\ (sticky \/ BOdd(q)))
                      q1 == IF up THEN BAdd(q, BOne) ELSE q
                  IN  IF BitLen(q1) > 53
                      THEN [m |-> BShr(q1, 1), e |-> e + s + 1]
                      ELSE [m |-> q1, e |-> e + s]

FFromNat(n) == FRound(BFromNat(n), 0, FALSE)

FOne == FFromNat(1)

FMul(x, y) ==
    IF x = FZero \/ y = FZero THEN FZero
    ELSE FRound(BMul(x.m, y.m), x.e + y.e, FALSE)

FAdd(x, y) ==
    IF x = FZero THEN y
    ELSE IF y = FZero THEN x
    ELSE LET lo == IF x.e <= y.e THEN x.e ELSE y.e
         IN  FRound(BAdd(BNorm(BShl(x.m, x.e - lo)), BNorm(BShl(y.m, y.e - lo))),
                    lo, FALSE)

\* Restoring division, one quotient bit per step, on <<quotient, remainder>>;
\* the remainder stays below 2d.
DivStep(qr, d) ==
    IF BCmp(qr[2], d) >= 0
    THEN <<BAdd(BShl(qr[1], 1), BOne), BShl(BSub(qr[2], d), 1)>>
    ELSE <<BShl(qr[1], 1), BShl(qr[2], 1)>>

RECURSIVE DivLoop(_, _, _)
DivLoop(qr, d, n) ==
    IF n = 0 \/ Len(qr) /= 2 THEN qr ELSE DivLoop(DivStep(qr, d), d, n - 1)

\* n steps of the division, eight at a time (the evaluation stays shallow)
RECURSIVE DivFrom(_, _, _)
DivFrom(qr, d, n) ==
    IF n = 0 \/ Len(qr) /= 2 THEN qr
    ELSE DivFrom(DivLoop(qr, d, IF n < 8 THEN n ELSE 8), d,
                 n - (IF n < 8 THEN n ELSE 8))

\* x / y for y > 0
FDiv(x, y) ==
    IF x = FZero THEN FZero
    ELSE LET qr == DivFrom(<<<<>>, x.m>>, y.m, 57)
         IN  FRound(qr[1], x.e - y.e - 56, qr[2] /= <<>>)

\* The square root bit by bit, most significant first, on <<root, rest>>
\* with rest = N - root^2: the bit is set when (root + 2^bit)^2 <= N.
SqrtStep(rr, bit) ==
    LET t == BAdd(BShl(rr[1], bit + 1), BShl(BOne, 2 * bit))
    IN  IF BCmp(rr[2], t) >= 0
        THEN <<BAdd(rr[1], BShl(BOne, bit)), BSub(rr[2], t)>>
        ELSE rr

RECURSIVE SqrtLoop(_, _, _)
SqrtLoop(rr, bit, stop) ==
    IF bit < stop \/ Len(rr) /= 2 THEN rr
    ELSE SqrtLoop(SqrtStep(rr, bit), bit - 1, stop)

\* All the bits from bit down, eight at a time (the evaluation stays shallow)
RECURSIVE SqrtFrom(_, _)
SqrtFrom(rr, bit) ==
    IF bit < 0 \/ Len(rr) /= 2 THEN rr
    ELSE SqrtFrom(SqrtLoop(rr, bit, Max(bit - 7, 0)), bit - 8)

\* <<floor of the square root of N, N minus its square>>
BSqrt(N) == SqrtFrom(<<<<>>, N>>, (BitLen(N) + 1) \div 2)

\* math.sqrt: the correctly rounded square root
FSqrt(x) ==
    IF x = FZero THEN FZero
    ELSE LET j == IF (x.e - 57) % 2 = 0 THEN 57 ELSE 58
             rr == BSqrt(BShl(x.m, j))
         IN  FRound(rr[1], (x.e - j) \div 2, rr[2] /= <<>>)

\* x / 2.0
FHalf(x) == IF x = FZero THEN FZero ELSE [m |-> x.m, e |-> x.e - 1]

FLt(x, y) ==
    IF y = FZero THEN FALSE
    ELSE IF x = FZero THEN TRUE
    ELSE x.e < y.e \/ (x.e = y.e /\ BCmp(x.m, y.m) < 0)

FLe(x, y) == x = y \/ FLt(x, y)


(***************************************************************************)
(* Python values.                                                          *)
(***************************************************************************)
None == "None"

Range(f) == {f[i] : i \in DOMAIN f}

\* sorted(seq, key=lambda x: -key(x)) and list.sort(key=lambda x: -key(x)):
\* a stable sort by decreasing key.  keyed is the list of the pairs
\* <<key(x), x>>, the keys being floats; the sorted list of the x is returned.
RECURSIVE InsertByKey(_, _)
InsertByKey(sorted, kx) ==
    IF sorted = <<>> THEN <<kx>>
    ELSE IF FLt(sorted[Len(sorted)][1], kx[1])
         THEN Append(InsertByKey(SubSeq(sorted, 1, Len(sorted) - 1), kx),
                     sorted[Len(sorted)])
         ELSE Append(sorted, kx)

RECURSIVE SortKeyed(_)
SortKeyed(keyed) ==
    IF keyed = <<>> THEN <<>>
    ELSE InsertByKey(SortKeyed(SubSeq(keyed, 1, Len(keyed) - 1)), keyed[Len(keyed)])

StableSort(keyed) ==
    LET sorted == SortKeyed(keyed) IN [n \in DOMAIN sorted |-> sorted[n][2]]

\* seq[:n] for every integer n (a negative n counts from the end)
Slice(seq, n) ==
    IF n >= 0 THEN SubSeq(seq, 1, IF n < Len(seq) THEN n ELSE Len(seq))
    ELSE SubSeq(seq, 1, Len(seq) + n)

\* All the orders in which the elements of a set can be enumerated.
Orders(S) == {o \in [1..Cardinality(S) -> S] : Range(o) = S}

VARIABLES
    fmemo,      \* the float expressions of cosine_sim, evaluated once
    in_s1,      \* cosine_sim: the set s1, in its iteration order
    in_s2,      \* cosine_sim: the set s2, in its iteration order
    in_idf,     \* cosine_sim: the idf argument, None or a dict
    sim12,      \* the value of cosine_sim(s1, s2, idf), None before the call
    sim21       \* the value of cosine_sim(s2, s1, idf), None before the call

simVars == <<in_s1, in_s2, in_idf, sim12, sim21>>

(***************************************************************************)
(* cosine_sim                                                              *)
(***************************************************************************)
\* len(intersection) / (math.sqrt(len(s1)) * math.sqrt(len(s2)))
SimValue(i, n1, n2) ==
    FDiv(FFromNat(i), FMul(FSqrt(FFromNat(n1)), FSqrt(FFromNat(n2))))

\* The values of SimValue, as tuples: SimTable(n)[n1][n2][i] for
\* i <= n1 <= n, i <= n2 <= n.  The square roots are taken once.
SimTable(n) ==
    LET sq == [k \in 1..n |-> FSqrt(FFromNat(k))] \o <<>>
    IN  [n1 \in 1..n |->
            [n2 \in 1..n |->
                [i \in 1..(IF n1 <= n2 THEN n1 ELSE n2) |->
                    FDiv(FFromNat(i), FMul(sq[n1], sq[n2]))] \o <<>>] \o <<>>] \o <<>>

\* cosine_sim(s1, s2) without idf
cosine_sim(s1, s2) ==
    IF s1 = {} \/ s2 = {} THEN FZero
    ELSE LET intersection == s1 \cap s2
         IN  IF intersection = {} THEN FZero
             ELSE fmemo.sim[Cardinality(s1)][Cardinality(s2)]
                           [Cardinality(intersection)]

\* idf.get(f, 0.5): another default weight
IdfGetHalf(idf, f) == IF f \in DOMAIN idf THEN idf[f] ELSE FHalf(FOne)

\* idf.get(f, 1.0)
IdfGet(idf, f) == IF f \in DOMAIN idf THEN idf[f] ELSE FOne

\* sum(idf.get(f, 1.0) for f in it): the float sum, in iteration order
RECURSIVE SumWeights(_, _, _)
SumWeights(idf, it, acc) ==
    IF it = <<>> THEN acc
    ELSE SumWeights(idf, Tail(it), FAdd(acc, IdfGet(idf, Head(it))))

\* sum(idf.get(f, 1.0) ** 2 for f in it)
RECURSIVE SumSquares(_, _, _)
SumSquares(idf, it, acc) ==
    IF it = <<>> THEN acc
    ELSE SumSquares(idf, Tail(it),
                    FAdd(acc, FMul(IdfGet(idf, Head(it)), IdfGet(idf, Head(it)))))

\* math.sqrt(sum(idf.get(f, 1.0) ** 2 for f in s))
Norm(idf, it) == FSqrt(SumSquares(idf, it, FZero))

\* cosine_sim(s1, s2, idf) with an idf dict.  it1 and it2 are the sets in
\* their iteration order, itx is s1 & s2 in the iteration order of that new
\* set, and norm1, norm2 are the two norms.
cosine_sim_idf(it1, it2, itx, idf, norm1, norm2) ==
    IF it1 = <<>> \/ it2 = <<>> THEN FZero
    ELSE IF itx = <<>> THEN FZero
    ELSE LET dot == SumWeights(idf, itx, FZero)
         IN  IF norm1 = FZero \/ norm2 = FZero THEN FZero
             ELSE FDiv(dot, FMul(norm1, norm2))
(***************************************************************************)
(* Rules and their fusion (src/old/grasp_it.py).                           *)
(***************************************************************************)
Rule(sL, sR, rt, weight) == [sL |-> sL, sR |-> sR, rt |-> rt, weight |-> weight]

rule_similarity(r1, r2) ==
    LET sim_l == cosine_sim(r1.sL, r2.sL)
        sim_r == cosine_sim(r1.sR, r2.sR)
    IN  FHalf(FAdd(sim_l, sim_r))

\* fuse_rules with the weight of r1 kept: the weight of r2 is lost.
fuse_rules_weight_lost(r1, r2) ==
    Rule(r1.sL \cup r2.sL, r1.sR \cup r2.sR, r1.rt, r1.weight)

fuse_rules(r1, r2) ==
    Rule(r1.sL \cup r2.sL, r1.sR \cup r2.sR, r1.rt, FAdd(r1.weight, r2.weight))

\* The inner loop with sim > self.fusion_threshold
RECURSIVE FuseInner_strict(_, _, _, _)
FuseInner_strict(rules, fusion_threshold, j, st) ==
    IF j > Len(rules) THEN st
    ELSE IF st.used[j] THEN FuseInner_strict(rules, fusion_threshold, j + 1, st)
    ELSE IF FLt(fusion_threshold, rule_similarity(st.current, rules[j]))
         THEN FuseInner_strict(rules, fusion_threshold, j + 1,
                               [current |-> fuse_rules(st.current, rules[j]),
                                used |-> [st.used EXCEPT ![j] = TRUE],
                                changed |-> TRUE])
         ELSE FuseInner_strict(rules, fusion_threshold, j + 1, st)

\* The inner loop of a pass, for j in range(from, len(rules)): st.current is
\* the rule being grown, st.used the marker array, st.changed the flag.
RECURSIVE FuseInner(_, _, _, _)
FuseInner(rules, fusion_threshold, j, st) ==
    IF j > Len(rules) THEN st
    ELSE IF st.used[j] THEN FuseInner(rules, fusion_threshold, j + 1, st)
    ELSE IF FLe(fusion_threshold, rule_similarity(st.current, rules[j]))
         THEN FuseInner(rules, fusion_threshold, j + 1,
                        [current |-> fuse_rules(st.current, rules[j]),
                         used |-> [st.used EXCEPT ![j] = TRUE],
                         changed |-> TRUE])
         ELSE FuseInner(rules, fusion_threshold, j + 1, st)

\* new_rules.append(current), after the inner loop
Appended(st, inner) ==
    [new_rules |-> Append(st.new_rules, inner.current),
     used |-> inner.used, changed |-> inner.changed]

\* The outer loop of a pass, for i in range(len(rules))
RECURSIVE FuseOuter(_, _, _, _)
FuseOuter(rules, fusion_threshold, i, st) ==
    IF i > Len(rules) THEN st
    ELSE IF st.used[i] THEN FuseOuter(rules, fusion_threshold, i + 1, st)
    ELSE FuseOuter(rules, fusion_threshold, i + 1,
                   Appended(st, FuseInner(rules, fusion_threshold, i + 1,
                                          [current |-> rules[i], used |-> st.used,
                                           changed |-> st.changed])))

\* rules = new_rules, at the end of a pass
PassEnd(st) == [rules |-> st.new_rules, changed |-> st.changed]

\* One pass that never sets changed: the while loop stops after it.
FusePassUnflagged(rules, fusion_threshold) ==
    [PassEnd(FuseOuter(rules, fusion_threshold, 1,
                       [new_rules |-> <<>>, used |-> [n \in 1..Len(rules) |-> FALSE],
                        changed |-> FALSE]))
        EXCEPT !.changed = FALSE]

\* One pass with changed = True set whether a merge happened or not
FusePass_always_changed(rules, fusion_threshold) ==
    [PassEnd(FuseOuter(rules, fusion_threshold, 1,
                       [new_rules |-> <<>>, used |-> [n \in 1..Len(rules) |-> FALSE],
                        changed |-> FALSE]))
        EXCEPT !.changed = TRUE]

\* One pass of the while loop: the new rule list and whether a merge happened.
FusePass(rules, fusion_threshold) ==
    PassEnd(FuseOuter(rules, fusion_threshold, 1,
                      [new_rules |-> <<>>, used |-> [n \in 1..Len(rules) |-> FALSE],
                       changed |-> FALSE]))

\* while changed: the passes, to the fixed point
RECURSIVE FuseLoop(_, _)
RECURSIVE FuseAgain(_, _)
FuseAgain(pass, fusion_threshold) ==
    IF pass.changed THEN FuseLoop(pass.rules, fusion_threshold) ELSE pass.rules

FuseLoop(rules, fusion_threshold) ==
    FuseAgain(FusePass(rules, fusion_threshold), fusion_threshold)

fuse_rules_for_type(rules, fusion_threshold) ==
    IF Len(rules) <= 1 THEN rules ELSE FuseLoop(rules, fusion_threshold)

VARIABLES
    rules,              \* GRASPit.rules
    fusion_threshold,   \* GRASPit.fusion_threshold
    f_by_type,  \* _train_fusion: rules_by_type, as <<type, rules>> in dict order
    f_idx,      \* _train_fusion: the position of the loop in rules_by_type
    f_rules,    \* _fuse_rules_for_type: the local list rules
    f_changed,  \* _fuse_rules_for_type: the flag changed
    f_passes,   \* _fuse_rules_for_type: the passes of the while loop so far
    f_pc        \* where _train_fusion is

fuseVars == <<f_by_type, f_idx, f_rules, f_changed, f_passes, f_pc>>


(***************************************************************************)
(* Signatures and their extraction (src/signature.py, src/old/signature.py)*)
(***************************************************************************)
\* A term is its text, cut into words at white space and apostrophes.
Tabouret == <<"tabouret">>
Bois == <<"bois">>
LaFrance == <<"la", "France">>

\* config.TRT_RELATION_IDS
TRT_RELATION_IDS ==
    {6, 8, 9, 10, 15, 28, 17, 23, 13, 14, 16, 30, 31, 42, 50, 54, 58, 70, 76,
     80, 113, 121, 122, 142, 153, 171, 172}

\* What the lexical network holds on each term: the hyperonyms with their
\* weights in the order of the dict get_hyperonyms returns, the names of the
\* semantic types, and the relation types present.
JDM ==
    (Tabouret :> [hyp |-> << <<"meuble", 30>> >>,
                  infosem |-> {},
                  types |-> {6, 36}])
    @@ (Bois :> [hyp |-> << <<"materiau", 20>>, <<"matiere", 30>>, <<"arbre", 10>> >>,
                 infosem |-> {},
                 types |-> {6}])
    @@ (LaFrance :> [hyp |-> << <<"pays", 40>> >>,
                     infosem |-> {"_INFO-SEM-PLACE"},
                     types |-> {15}])

\* The three reads of the client.  A term the client has no data on (an
\* unknown term, a failed request) comes back empty: known is FALSE.
get_hyperonyms(word, known) == IF known THEN JDM[word].hyp ELSE <<>>
get_infosem(word, known) == IF known THEN JDM[word].infosem ELSE {}
get_relation_types_present(word, known) == IF known THEN JDM[word].types ELSE {}

\* SignatureExtractor.max_hyperonyms
max_hyperonyms == 2

Digit(d) ==
    CASE d = 0 -> "0" [] d = 1 -> "1" [] d = 2 -> "2" [] d = 3 -> "3"
      [] d = 4 -> "4" [] d = 5 -> "5" [] d = 6 -> "6" [] d = 7 -> "7"
      [] d = 8 -> "8" [] d = 9 -> "9"

\* str(t) for a natural t
RECURSIVE str(_)
str(t) == IF t < 10 THEN Digit(t) ELSE str(t \div 10) \o Digit(t % 10)

Signature(hyperonyms, trt, sst) ==
    [hyperonyms |-> hyperonyms, trt |-> trt, sst |-> sst]

\* Signature.to_set
to_set(sig) ==
    {"H:" \o h : h \in sig.hyperonyms} \cup {"TRT:" \o t : t \in sig.trt}
        \cup {"SST:" \o x : x \in sig.sst}

\* The Signature extract builds on a cache miss.
BuildSignature(word, known) ==
    LET hyp == get_hyperonyms(word, known)
        top_hyp == Slice(StableSort([n \in DOMAIN hyp |->
                                        <<FFromNat(hyp[n][2]), hyp[n]>>]),
                         max_hyperonyms)
    IN  Signature({top_hyp[n][1] : n \in DOMAIN top_hyp},
                  {str(t) : t \in get_relation_types_present(word, known)
                                      \cap TRT_RELATION_IDS},
                  get_infosem(word, known))

\* data_loader._DET_DEF and _DET_INDEF
DET_DEF == {"le", "la", "les", "l", "du", "des", "au", "aux"}
DET_INDEF == {"un", "une", "des"}

\* str.lower on a word
Lower(w) ==
    CASE w = "La" -> "la" [] w = "Le" -> "le" [] w = "Les" -> "les"
      [] w = "Un" -> "un" [] w = "Une" -> "une" [] OTHER -> w

\* data_loader.detect_definiteness: a determiner, followed by white space or
\* an apostrophe, starts the text
detect_definiteness(b_text) ==
    IF Len(b_text) >= 2 /\ Lower(b_text[1]) \in DET_DEF \cup DET_INDEF
    THEN (IF Lower(b_text[1]) \in DET_DEF THEN "DEF" ELSE "INDEF")
    ELSE "NONE"

\* extract that builds the Signature whether the term is in the cache or not
extract_always_builds(c, word, kn) ==
    [c EXCEPT ![word] = <<BuildSignature(word, word \in kn)>>]

\* SignatureExtractor._cache is a function on the terms: <<>> for a term that
\* is not in the dict, <<sig>> for one that is.  extract(c, word, kn) is the
\* cache after extract(word) on the cache c, when kn are the terms the client
\* has data on; the Signature returned is then c[word][1].
extract(c, word, kn) ==
    IF c[word] /= <<>> THEN c
    ELSE [c EXCEPT ![word] = <<BuildSignature(word, word \in kn)>>]

\* extract_pair(a, b): the cache after the call and the two sets returned.
\* Only src/old/signature.py adds the definiteness token (include_def is
\* left at its default, True, by every caller).
\* The reads of the client: r[word] counts, for each of its three methods,
\* the calls extract has made for word.  extract_reads(c, r, word) is the
\* count after extract(word) on the cache c: the three calls are on the path
\* of a cache miss only.
NoReads ==
    [get_hyperonyms |-> 0, get_infosem |-> 0, get_relation_types_present |-> 0]

OneMoreEach(n) ==
    [get_hyperonyms |-> n.get_hyperonyms + 1,
     get_infosem |-> n.get_infosem + 1,
     get_relation_types_present |-> n.get_relation_types_present + 1]

extract_reads(c, r, word) ==
    IF c[word] /= <<>> THEN r ELSE [r EXCEPT ![word] = OneMoreEach(@)]

\* The reads after extract_pair(a, b)
extract_pair_reads(c, r, a, b, kn) ==
    extract_reads(extract(c, a, kn), extract_reads(c, r, a), b)

\* extract_pair that adds the DEF token to both sets
PairSets_def_on_both(c, a, b, include_def) ==
    [cache |-> c,
     set_a |-> IF include_def
               THEN to_set(c[a][1]) \cup {"DEF:" \o detect_definiteness(b)}
               ELSE to_set(c[a][1]),
     set_b |-> IF include_def
               THEN to_set(c[b][1]) \cup {"DEF:" \o detect_definiteness(b)}
               ELSE to_set(c[b][1])]

PairSets(c, a, b, include_def) ==
    [cache |-> c,
     set_a |-> to_set(c[a][1]),
     set_b |-> IF include_def
               THEN to_set(c[b][1]) \cup {"DEF:" \o detect_definiteness(b)}
               ELSE to_set(c[b][1])]

extract_pair(c, a, b, kn, include_def) ==
    PairSets(extract(extract(c, a, kn), b, kn), a, b, include_def)

VARIABLES
    cache,       \* SignatureExtractor._cache
    version,     \* "current" for the program of src/, "old" for that of src/old/
    mode,        \* GRASPit.mode: "knn" or "fusion"
    k_neighbours, \* GRASPit.k
    train_data,  \* the argument of the last call of train
    pc,          \* "idle", or "returned" when a call of predict has returned
    ret,         \* <<the call of predict that has returned>>, <<>> otherwise
    first,       \* <<the first call of predict since the RuleStore or the
                 \*   cache last changed>>, <<>> before it
    reads,       \* the calls made to the client, by term and method
    arg_set_a,   \* _predict_knn, _predict_best_match called on their own: set_a
    arg_set_b,   \* _predict_knn, _predict_best_match called on their own: set_b
    t_word,      \* two threads in extract(word): the term both are called on
    t_known,     \* whether the client has data on that term
    t_pc,        \* where each thread is in extract
    t_sig,       \* the local sig of each thread
    t_ret,       \* <<the Signature extract returned>> to each thread, <<>> before
    trains,      \* the calls of train so far, counted up to MaxTrainCalls
    memory_cache, \* JDMClient._memory_cache: cache key -> <<data>>, <<>> when absent
    disk_files,  \* the files of cache_dir: cache key -> <<JSON document>>, <<>> when absent
    requests,    \* the HTTP requests sent so far
    got,         \* <<the last get_relations call of the client>>, <<>> before
    failed       \* the cache keys whose fetch has failed

threadVars == <<t_word, t_known, t_pc, t_sig, t_ret>>

clientVars == <<memory_cache, disk_files, requests, got, failed>>

clsVars == <<cache, version, mode, k_neighbours, train_data, pc, ret, first, reads,
             arg_set_a, arg_set_b, threadVars, trains, clientVars>>

vars == <<fmemo, simVars, rules, fusion_threshold, fuseVars, clsVars>>

(***************************************************************************)
(* The classifier (src/grasp_it.py, src/old/grasp_it.py).                  *)
(***************************************************************************)
\* The scored rules of score_r and _predict_knn, before the sort
RECURSIVE ScoreRules(_, _, _)
ScoreRules(set_a, set_b, rs) ==
    IF rs = <<>> THEN <<>>
    ELSE LET sim_l == cosine_sim(set_a, Head(rs).sL)
             sim_r == cosine_sim(set_b, Head(rs).sR)
         IN  <<[score |-> FHalf(FAdd(sim_l, sim_r)), rt |-> Head(rs).rt,
                sim_l |-> sim_l, sim_r |-> sim_r]>>
                 \o ScoreRules(set_a, set_b, Tail(rs))

score_r_unsorted(set_a, set_b, rs) == ScoreRules(set_a, set_b, rs)

\* scored.sort(key=lambda x: -x[0])
score_r(set_a, set_b, rs) ==
    LET scored == ScoreRules(set_a, set_b, rs)
    IN  StableSort([n \in DOMAIN scored |-> <<scored[n].score, scored[n]>>])

\* A dict of floats by type, in insertion order: <<type, value>> pairs.
DictKeys(d) == {d[n][1] : n \in DOMAIN d}
DictAt(d, key) == CHOOSE n \in DOMAIN d : d[n][1] = key

\* votes[rt] += score
RECURSIVE Votes_plain_score(_, _)
Votes_plain_score(scored, votes) ==
    IF scored = <<>> THEN votes
    ELSE Votes_plain_score(Tail(scored),
             IF Head(scored).rt \in DictKeys(votes)
             THEN [votes EXCEPT ![DictAt(votes, Head(scored).rt)] =
                       <<Head(scored).rt, FAdd(@[2], Head(scored).score)>>]
             ELSE Append(votes, <<Head(scored).rt, FAdd(FZero, Head(scored).score)>>))

\* votes[rt] += score * score, over the scored rules given
RECURSIVE Votes(_, _)
Votes(scored, votes) ==
    IF scored = <<>> THEN votes
    ELSE LET x == Head(scored)
             sq == FMul(x.score, x.score)
         IN  Votes(Tail(scored),
                   IF x.rt \in DictKeys(votes)
                   THEN [votes EXCEPT ![DictAt(votes, x.rt)] = <<x.rt, FAdd(@[2], sq)>>]
                   ELSE Append(votes, <<x.rt, FAdd(FZero, sq)>>))

\* type_scores[rt] = max(scores), over the rules in RuleStore order
RECURSIVE BestByType(_, _)
BestByType(scored, best) ==
    IF scored = <<>> THEN best
    ELSE LET x == Head(scored)
         IN  BestByType(Tail(scored),
                 IF x.rt \in DictKeys(best)
                 THEN [best EXCEPT ![DictAt(best, x.rt)] =
                           <<x.rt, IF FLt(@[2], x.score) THEN x.score ELSE @[2]>>]
                 ELSE Append(best, <<x.rt, x.score>>))

\* What predict returns: one pair for top_n = 1, a list of pairs otherwise.
Returned(single, items) == [single |-> single, items |-> items]

\* The end of predict with the pair ("unknown", 0.0) returned whatever top_n.
RankedUnknownPair(votes, top_n) ==
    IF votes = <<>> THEN Returned(TRUE, << <<"unknown", FZero>> >>)
    ELSE LET ranked == StableSort([n \in DOMAIN votes |-> <<votes[n][2], votes[n]>>])
         IN  IF top_n = 1 THEN Returned(TRUE, <<ranked[1]>>)
             ELSE Returned(FALSE, Slice(ranked, top_n))

\* The end of predict, _predict_knn and _predict_best_match
Ranked(votes, top_n) ==
    IF votes = <<>>
    THEN (IF top_n = 1 THEN Returned(TRUE, << <<"unknown", FZero>> >>)
          ELSE Returned(FALSE, <<>>))
    ELSE LET ranked == StableSort([n \in DOMAIN votes |-> <<votes[n][2], votes[n]>>])
         IN  IF top_n = 1 THEN Returned(TRUE, <<ranked[1]>>)
             ELSE Returned(FALSE, Slice(ranked, top_n))

\* predict with a votes dict that outlives the call: the votes of the first
\* call are still in it.
predict_knn_votes_kept(set_a, set_b, top_n, rs, kk) ==
    Ranked(Votes(Slice(score_r(set_a, set_b, rs), kk),
                 IF first = <<>> THEN <<>>
                 ELSE SelectSeq(first[1].value.items, LAMBDA x : x[1] /= "unknown")),
           top_n)

\* predict of src/grasp_it.py and _predict_knn
predict_knn(set_a, set_b, top_n, rs, kk) ==
    Ranked(Votes(Slice(score_r(set_a, set_b, rs), kk), <<>>), top_n)

\* _predict_best_match
predict_best_match(set_a, set_b, top_n, rs) ==
    Ranked(BestByType(ScoreRules(set_a, set_b, rs), <<>>), top_n)

\* votes[rt] of predict_2 and predict_explain before the first vote;
\* best_score is what info.get("best_score", 0) gives.
NoVote ==
    [score |-> FZero, count |-> 0, best_sim_A |-> FZero, best_sim_B |-> FZero,
     best_score |-> FZero]

\* The counting of the votes without the count: count stays 0.
OneVote_not_counted(info, x) ==
    [score |-> FAdd(info.score, x.score),
     count |-> info.count,
     best_sim_A |-> IF FLt(info.best_score, x.score) THEN x.sim_l ELSE info.best_sim_A,
     best_sim_B |-> IF FLt(info.best_score, x.score) THEN x.sim_r ELSE info.best_sim_B,
     best_score |-> IF FLt(info.best_score, x.score) THEN x.score ELSE info.best_score]

\* The body of the loop over scored[:k]: the vote of the scored rule x
OneVote(info, x) ==
    [score |-> FAdd(info.score, x.score),
     count |-> info.count + 1,
     best_sim_A |-> IF FLt(info.best_score, x.score) THEN x.sim_l ELSE info.best_sim_A,
     best_sim_B |-> IF FLt(info.best_score, x.score) THEN x.sim_r ELSE info.best_sim_B,
     best_score |-> IF FLt(info.best_score, x.score) THEN x.score ELSE info.best_score]

RECURSIVE ExplainVotes(_, _)
ExplainVotes(scored, votes) ==
    IF scored = <<>> THEN votes
    ELSE ExplainVotes(Tail(scored),
             IF Head(scored).rt \in DictKeys(votes)
             THEN [votes EXCEPT ![DictAt(votes, Head(scored).rt)] =
                       <<Head(scored).rt, OneVote(@[2], Head(scored))>>]
             ELSE Append(votes, <<Head(scored).rt, OneVote(NoVote, Head(scored))>>))

\* type_scores[rt] = {"score": ..., "sim_A": ..., "sim_B": ..., "votes": ...}
VoteScores(votes) ==
    [n \in DOMAIN votes |->
        <<votes[n][1],
          [score |-> votes[n][2].score, sim_A |-> votes[n][2].best_sim_A,
           sim_B |-> votes[n][2].best_sim_B, votes |-> votes[n][2].count]>>]

\* ranked = sorted(type_scores.items(), key=lambda x: -x[1]["score"]);
\* return ranked[:top_n]
ExplainRanked(type_scores, top_n) ==
    Slice(StableSort([n \in DOMAIN type_scores |->
                         <<type_scores[n][2].score, type_scores[n]>>]),
          top_n)

\* predict_2, and predict_explain in knn mode, on the scored rules
explain_knn(scored, top_n, kk) ==
    ExplainRanked(VoteScores(ExplainVotes(Slice(scored, kk), <<>>)), top_n)

\* The scored rules of predict_explain carry the weight of the rule.
RECURSIVE ScoreRulesWeight(_, _, _)
ScoreRulesWeight(set_a, set_b, rs) ==
    IF rs = <<>> THEN <<>>
    ELSE <<[score |-> FHalf(FAdd(cosine_sim(set_a, Head(rs).sL),
                                 cosine_sim(set_b, Head(rs).sR))),
            rt |-> Head(rs).rt,
            sim_l |-> cosine_sim(set_a, Head(rs).sL),
            sim_r |-> cosine_sim(set_b, Head(rs).sR),
            weight |-> Head(rs).weight]>>
             \o ScoreRulesWeight(set_a, set_b, Tail(rs))

\* best_by_type[rt] = {"score": ..., "sim_A": ..., "sim_B": ..., "weight": w}
BestEntry(x) == [score |-> x.score, sim_A |-> x.sim_l, sim_B |-> x.sim_r, weight |-> x.weight]

RECURSIVE ExplainBest(_, _)
ExplainBest(scored, best) ==
    IF scored = <<>> THEN best
    ELSE ExplainBest(Tail(scored),
             IF Head(scored).rt \notin DictKeys(best)
             THEN Append(best, <<Head(scored).rt, BestEntry(Head(scored))>>)
             ELSE IF FLt(best[DictAt(best, Head(scored).rt)][2].score, Head(scored).score)
                  THEN [best EXCEPT ![DictAt(best, Head(scored).rt)] =
                            <<Head(scored).rt, BestEntry(Head(scored))>>]
                  ELSE best)

SortedByScore(scored) ==
    StableSort([n \in DOMAIN scored |-> <<scored[n].score, scored[n]>>])

\* predict_2(a, b, top_n) of src/grasp_it.py and predict_explain(a, b, top_n)
\* of src/old/grasp_it.py, on the sets extract_pair returned
predict_explain(set_a, set_b, top_n, rs, ver, md, kk) ==
    IF ver = "current" THEN explain_knn(score_r(set_a, set_b, rs), top_n, kk)
    ELSE IF md = "knn"
         THEN explain_knn(SortedByScore(ScoreRulesWeight(set_a, set_b, rs)), top_n, kk)
    ELSE ExplainRanked(ExplainBest(SortedByScore(ScoreRulesWeight(set_a, set_b, rs)),
                                   <<>>),
                       top_n)

(***************************************************************************)
(* The similarity function on its own: two sets and an idf argument are    *)
(* drawn, and cosine_sim is called on them in both argument orders.        *)
(***************************************************************************)
SimSymbols == {"H:matiere", "H:materiau", "TRT:6"}

\* The set objects over S: a Python set has one iteration order.
SetObjects(S) == UNION {Orders(T) : T \in SUBSET S}

Tenth(n) == FDiv(FFromNat(n), FFromNat(10))

\* The idf dicts tried: an empty one, one that gives every feature 1.0 and
\* one with the weights 0.1, 0.2, 0.4.
IdfDicts ==
    { <<>>,
      [f \in SimSymbols |-> FOne],
      ("H:matiere" :> Tenth(1)) @@ ("H:materiau" :> Tenth(2))
          @@ ("TRT:6" :> Tenth(4)) }

NoIdf == [given |-> FALSE, dict |-> <<>>]

\* One call of cosine_sim(s1, s2, idf); itx is the iteration order of the
\* set s1 & s2 the call builds.
CosineCall(it1, it2, itx, idf) ==
    IF ~idf.given THEN cosine_sim(Range(it1), Range(it2))
    ELSE cosine_sim_idf(it1, it2, itx, idf.dict,
                        fmemo.norm[<<idf.dict, it1>>], fmemo.norm[<<idf.dict, it2>>])

(***************************************************************************)
(* JDMClient (src/old/jdm_client.py): get_relations over the memory cache  *)
(* and the disk cache.  A character string that is built or parsed is the  *)
(* sequence of its characters.                                             *)
(***************************************************************************)
\* def _api_call(self, endpoint, params=None, retries=3)
retries == 3

\* The requests the model lets a client send
MaxRequests == 6

Digits == <<"0", "1", "2", "3", "4", "5", "6", "7", "8", "9">>

\* str(n) of an int n >= 0
RECURSIVE decimal(_)
decimal(n) ==
    IF n < 10 THEN <<Digits[n + 1]>>
    ELSE decimal(n \div 10) \o <<Digits[(n % 10) + 1]>>

DigitValue(d) == CHOOSE v \in 0..9 : Digits[v + 1] = d

\* int(k) of a string of digits
RECURSIVE int(_)
int(k) ==
    IF Len(k) = 1 THEN DigitValue(k[1])
    ELSE 10 * int(SubSeq(k, 1, Len(k) - 1)) + DigitValue(k[Len(k)])

ClientWords == {"chaise"}

\* The (types_ids, min_weight) of get_hyperonyms and of
\* get_relation_types_present; types_ids is <<>> for None.
ClientQueries == {<<<<6>>, 1>>, <<<<>>, 0>>}

\* str(types_ids) if types_ids is not None else "all"
types_str(types_ids) ==
    IF types_ids /= <<>> THEN decimal(types_ids[1]) ELSE <<"a", "l", "l">>

\* _cache_key: the md5 of f"{word}|{types_ids}|{min_weight}", taken as
\* the three parts it is made of
cache_key(word, types_ids, min_weight) == <<word, types_ids, decimal(min_weight)>>

CacheKeys ==
    {cache_key(w, types_str(q[1]), q[2]) : w \in ClientWords, q \in ClientQueries}

\* {"nodes": {}, "relations": []}
EmptyResult == [nodes |-> <<>>, relations |-> <<>>]

\* json.dump(data): the keys of nodes become strings
dump(data) ==
    [nodes |-> [k \in {decimal(id) : id \in DOMAIN data.nodes} |-> data.nodes[int(k)]],
     relations |-> data.relations]

\* json.load(f), then data["nodes"] = {int(k): v ...}
load(doc) ==
    [nodes |-> [id \in {int(k) : k \in DOMAIN doc.nodes} |-> doc.nodes[decimal(id)]],
     relations |-> doc.relations]

\* The JSON body the API answers a successful request with
Body(word, types_ids) ==
    [nodes |-> <<[id |-> 12, name |-> word, type |-> 1, w |-> 50],
                 [id |-> 7, name |-> "meuble", type |-> 1, w |-> 40]>>,
     relations |-> <<[node1 |-> 12, node2 |-> 7, type |-> 6, w |-> 40]>>]

\* What the network does with one request: a 200 with a JSON body, a 200
\* whose body is null, a 404, another HTTP error, or an error below HTTP
Answers == {"200", "null", "404", "500", "URLError"}

\* _api_call from the attempt-th pass of its for loop on (attempt counts
\* from 0): raw is <<the parsed body>>, <<>> for None; sent counts the requests.
RECURSIVE api_loop(_, _, _, _)
api_loop(body, answers, attempt, n) ==
    IF attempt >= n THEN [raw |-> <<>>, sent |-> attempt]
    ELSE IF answers[attempt + 1] = "200" THEN [raw |-> <<body>>, sent |-> attempt + 1]
    ELSE IF answers[attempt + 1] \in {"null", "404"} THEN [raw |-> <<>>, sent |-> attempt + 1]
    ELSE IF attempt < n - 1 THEN api_loop(body, answers, attempt + 1, n)
    ELSE [raw |-> <<>>, sent |-> attempt + 1]

api_call(body, answers) == api_loop(body, answers, 0, retries)

\* nodes[node["id"]] = {...} for node in raw["nodes"]: the last node of an id
\* stays
ParsedNodes(nodes) ==
    [id \in {nodes[i].id : i \in DOMAIN nodes} |->
        LET i == CHOOSE j \in DOMAIN nodes :
                     /\ nodes[j].id = id
                     /\ \A l \in DOMAIN nodes : nodes[l].id = id => l <= j
        IN [name |-> nodes[i].name, type |-> nodes[i].type, weight |-> nodes[i].w]]

ParsedRelations(relations) ==
    [i \in DOMAIN relations |->
        [node1 |-> relations[i].node1, node2 |-> relations[i].node2,
         type |-> relations[i].type, weight |-> relations[i].w]]

\* _load_from_cache(key): <<data>> or <<>> for None, and the memory cache after
load_from_cache(mem, disk, key) ==
    IF mem[key] /= <<>> THEN [data |-> mem[key], memory |-> mem]
    ELSE IF disk[key] /= <<>>
    THEN [data |-> <<load(disk[key][1])>>,
          memory |-> [mem EXCEPT ![key] = <<load(disk[key][1])>>]]
    ELSE [data |-> <<>>, memory |-> mem]

\* What get_relations returns and leaves, once _api_call has returned
Fetched(mem, disk, key, call, result) ==
    [key |-> key, result |-> result, sent |-> call.sent, failed |-> call.raw = <<>>,
     memory |-> [mem EXCEPT ![key] = <<result>>],
     disk |-> [disk EXCEPT ![key] = <<dump(result)>>]]

\* get_relations that returns the empty result of a failed fetch without
\* saving it
get_relations_unsaved(mem, disk, word, types_ids, min_weight, answers) ==
    IF load_from_cache(mem, disk, cache_key(word, types_str(types_ids), min_weight)).data
           /= <<>>
    THEN Fetched(mem, disk, cache_key(word, types_str(types_ids), min_weight),
                 [raw |-> <<TRUE>>, sent |-> 0], EmptyResult)
    ELSE [key |-> cache_key(word, types_str(types_ids), min_weight),
          result |-> EmptyResult, sent |-> 0, failed |-> TRUE,
          memory |-> mem, disk |-> disk]

\* get_relations(word, types_ids, min_weight) on a client whose memory cache
\* is mem and whose cache_dir holds disk, the network answering the
\* requests with answers
get_relations(mem, disk, word, types_ids, min_weight, answers) ==
    LET key == cache_key(word, types_str(types_ids), min_weight)
        cached == load_from_cache(mem, disk, key)
        call == api_call(Body(word, types_ids), answers)
    IN IF cached.data /= <<>>
       THEN [key |-> key, result |-> cached.data[1], sent |-> 0, failed |-> FALSE,
             memory |-> cached.memory, disk |-> disk]
       ELSE IF call.raw = <<>>
       THEN Fetched(mem, disk, key, call, EmptyResult)
       ELSE Fetched(mem, disk, key, call,
                    [nodes |-> ParsedNodes(call.raw[1].nodes),
                     relations |-> ParsedRelations(call.raw[1].relations)])

\* JDMClient(cache_dir) on a cache_dir that holds no file
ClientIdle ==
    /\ memory_cache = [key \in CacheKeys |-> <<>>]
    /\ disk_files = [key \in CacheKeys |-> <<>>]
    /\ requests = 0
    /\ got = <<>>
    /\ failed = {}

\* GRASPit(extractor, mode="fusion") of src/old, as constructed.
DefaultK == 5

Terms == {Tabouret, Bois, LaFrance}

Threads == {1, 2}

\* No thread is in extract.
NoThreads ==
    /\ t_word = Tabouret
    /\ t_known = FALSE
    /\ t_pc = [th \in Threads |-> "idle"]
    /\ t_sig = [th \in Threads |-> Signature({}, {}, {})]
    /\ t_ret = [th \in Threads |-> <<>>]

ClassifierNew ==
    /\ cache = [t \in Terms |-> <<>>]
    /\ version = "old"
    /\ mode = "fusion"
    /\ k_neighbours = DefaultK
    /\ train_data = <<>>
    /\ pc = "idle"
    /\ ret = <<>>
    /\ first = <<>>
    /\ reads = [t \in Terms |-> NoReads]
    /\ arg_set_a = {}
    /\ arg_set_b = {}
    /\ NoThreads
    /\ ClientIdle
    /\ trains = 0

\* No fusion is in progress.
FuseIdle ==
    /\ f_by_type = <<>>
    /\ f_idx = 0
    /\ f_rules = <<>>
    /\ f_changed = FALSE
    /\ f_passes = 0
    /\ f_pc = "idle"

SimInit ==
    /\ fmemo = [sim |-> SimTable(Cardinality(SimSymbols)),
                norm |-> [key \in IdfDicts \X SetObjects(SimSymbols) |-> Norm(key[1], key[2])]]
    /\ rules = <<>>
    /\ fusion_threshold = FHalf(FOne)
    /\ FuseIdle
    /\ ClassifierNew
    /\ in_s1 \in SetObjects(SimSymbols)
    /\ in_s2 \in SetObjects(SimSymbols)
    /\ in_idf \in {NoIdf} \cup {[given |-> TRUE, dict |-> d] : d \in IdfDicts}
    /\ sim12 = <<>>
    /\ sim21 = <<>>

Call12 ==
    /\ sim12 = <<>>
    /\ \E itx \in Orders(Range(in_s1) \cap Range(in_s2)) :
           sim12' = <<CosineCall(in_s1, in_s2, itx, in_idf)>>
    /\ UNCHANGED <<fmemo, in_s1, in_s2, in_idf, sim21, rules, fusion_threshold, fuseVars,
                   clsVars>>

Call21 ==
    /\ sim21 = <<>>
    /\ \E itx \in Orders(Range(in_s1) \cap Range(in_s2)) :
           sim21' = <<CosineCall(in_s2, in_s1, itx, in_idf)>>
    /\ UNCHANGED <<fmemo, in_s1, in_s2, in_idf, sim12, rules, fusion_threshold, fuseVars,
                   clsVars>>

SimNext == Call12 \/ Call21

SpecSim == SimInit /\ [][SimNext]_vars
(***************************************************************************)
(* Training in fusion mode on its own: _train_fusion as the steps of its   *)
(* loops, one step per pass of the while loop of _fuse_rules_for_type.     *)
(***************************************************************************)
RelTypes == {"r_lieu", "r_objetmatiere"}

\* rules_by_type[rt].append(rule): the types in the order of their first rule
RECURSIVE GroupByType(_, _)
GroupByType(raw, acc) ==
    IF raw = <<>> THEN acc
    ELSE LET rule == Head(raw)
             at == {n \in 1..Len(acc) : acc[n][1] = rule.rt}
         IN  GroupByType(Tail(raw),
                 IF at = {} THEN Append(acc, <<rule.rt, <<rule>>>>)
                 ELSE [acc EXCEPT ![CHOOSE n \in at : TRUE] =
                                      <<rule.rt, Append(@[2], rule)>>])

\* The raw rules the fusion is tried on: four pairs of symbol sets, of
\* either type, weight 1.0.
FuseShapes ==
    { <<{"H:meuble"}, {"TRT:6"}>>,
      <<{"H:matiere"}, {"TRT:15"}>>,
      <<{"H:meuble", "H:matiere"}, {"TRT:6", "TRT:15"}>>,
      <<{"H:pays"}, {"SST:_INFO-SEM-PLACE"}>> }

FuseCandidates == {Rule(sh[1], sh[2], rt, FOne) : sh \in FuseShapes, rt \in RelTypes}

MaxFuseRules == 3

Thresholds == {FZero, FHalf(FOne), FOne}

SeqsUpTo(S, n) == UNION {[1..len -> S] : len \in 0..n}

\* No similarity call is in progress.
SimIdle ==
    /\ in_s1 = <<>>
    /\ in_s2 = <<>>
    /\ in_idf = NoIdf
    /\ sim12 = <<>>
    /\ sim21 = <<>>

FuseInit ==
    /\ fmemo = [sim |-> SimTable(Cardinality(UNION {sh[1] \cup sh[2] : sh \in FuseShapes})),
                norm |-> <<>>]
    /\ SimIdle
    /\ ClassifierNew
    /\ rules = <<>>
    /\ fusion_threshold \in Thresholds
    /\ \E raw \in SeqsUpTo(FuseCandidates, MaxFuseRules) :
           f_by_type = GroupByType(raw, <<>>)
    /\ f_idx = 1
    /\ f_rules = <<>>
    /\ f_changed = FALSE
    /\ f_passes = 0
    /\ f_pc = "for"

\* for rt, rules in rules_by_type.items(): the call of _fuse_rules_for_type,
\* up to the while loop
FuseCall ==
    /\ f_pc = "for"
    /\ f_idx <= Len(f_by_type)
    /\ f_rules' = f_by_type[f_idx][2]
    /\ IF Len(f_by_type[f_idx][2]) <= 1
       THEN f_changed' = FALSE /\ f_pc' = "return"
       ELSE f_changed' = TRUE /\ f_pc' = "while"
    /\ f_passes' = 0
    /\ UNCHANGED <<fmemo, simVars, clsVars, rules, fusion_threshold, f_by_type, f_idx>>

\* rules = new_rules, and changed as the pass left it
PassDone(pass) == f_rules' = pass.rules /\ f_changed' = pass.changed

\* One pass of the while loop
FuseWhile ==
    /\ f_pc = "while"
    /\ f_changed
    /\ PassDone(FusePass(f_rules, fusion_threshold))
    /\ f_passes' = f_passes + 1
    /\ UNCHANGED <<fmemo, simVars, clsVars, rules, fusion_threshold, f_by_type, f_idx, f_pc>>

\* The while loop ends
FuseReturn ==
    /\ f_pc = "while"
    /\ ~f_changed
    /\ f_pc' = "return"
    /\ UNCHANGED <<fmemo, simVars, clsVars, rules, fusion_threshold, f_by_type, f_idx,
                   f_rules, f_changed, f_passes>>

\* self.rules.extend(fused_rules)
FuseExtend ==
    /\ f_pc = "return"
    /\ rules' = rules \o f_rules
    /\ f_idx' = f_idx + 1
    /\ f_pc' = "for"
    /\ UNCHANGED <<fmemo, simVars, clsVars, fusion_threshold, f_by_type, f_rules, f_changed,
                   f_passes>>

\* The for loop ends
FuseDone ==
    /\ f_pc = "for"
    /\ f_idx > Len(f_by_type)
    /\ f_pc' = "done"
    /\ UNCHANGED <<fmemo, simVars, clsVars, rules, fusion_threshold, f_by_type, f_idx,
                   f_rules, f_changed, f_passes>>

FuseNext == FuseCall \/ FuseWhile \/ FuseReturn \/ FuseExtend \/ FuseDone

SpecFuse == FuseInit /\ [][FuseNext]_vars

(***************************************************************************)
(* The classifier and its extractor: a GRASPit of either program is        *)
(* constructed, then train, predict and extract are called in any order.   *)
(***************************************************************************)
\* GRASPit.Rule of src/grasp_it.py has no weight.
RuleNoWeight(sL, sR, rt) == [sL |-> sL, sR |-> sR, rt |-> rt]

\* The training examples (a, b, rt) at hand
Corpus ==
    { <<Tabouret, Bois, "r_objetmatiere">>,
      <<Bois, LaFrance, "r_lieu">>,
      <<Tabouret, LaFrance, "r_lieu">> }

MaxTrain == 2

\* The calls of train are counted up to this number.
MaxTrainCalls == 2

\* The pairs (a, b) predict is called on, and the values of top_n
Queries == {<<Tabouret, Bois>>, <<Bois, LaFrance>>, <<LaFrance, Tabouret>>}
TopNs == {1, 2}

\* The values of k a GRASPit is constructed with
Ks == {-1, 0, 1, 2}

\* Every symbol a signature set can hold
AllSymbols ==
    UNION {to_set(BuildSignature(t, TRUE)) : t \in Terms}
        \cup {"DEF:" \o d : d \in {"DEF", "INDEF", "NONE"}}

\* The loop of train over train_data: the cache after it and the rules made,
\* in the order of the examples.
RECURSIVE TrainLoop(_, _, _, _, _)
RECURSIVE TrainExample(_, _, _, _, _)
\* The body of the loop, on the pair p extract_pair returned
TrainExample(p, data, kn, old, acc) ==
    TrainLoop(p.cache, Tail(data), kn, old,
              IF p.set_a = {} /\ p.set_b = {} THEN acc
              ELSE IF old THEN Append(acc, Rule(p.set_a, p.set_b, Head(data)[3], FOne))
              ELSE Append(acc, RuleNoWeight(p.set_a, p.set_b, Head(data)[3])))

TrainLoop(c, data, kn, old, acc) ==
    IF data = <<>> THEN [cache |-> c, rules |-> acc]
    ELSE TrainExample(extract_pair(c, Head(data)[1], Head(data)[2], kn, old),
                      data, kn, old, acc)

\* for rules in rules_by_type.values(): self.rules.extend(rules)
RECURSIVE ExtendAll(_, _)
ExtendAll(by_type, acc) ==
    IF by_type = <<>> THEN acc
    ELSE ExtendAll(Tail(by_type), acc \o Head(by_type)[2])

\* _train_fusion: self.rules = [], then the fused rules of every type
RECURSIVE train_fusion(_, _, _)
train_fusion(by_type, threshold, acc) ==
    IF by_type = <<>> THEN acc
    ELSE train_fusion(Tail(by_type), threshold,
                      acc \o fuse_rules_for_type(Head(by_type)[2], threshold))

\* The end of train, after the loop: the rules made go to the RuleStore as
\* they are (src/grasp_it.py), by type (knn) or by type and fused (fusion).
Stored(made, ver, md, threshold) ==
    [cache |-> made.cache,
     rules |-> IF ver = "current" THEN made.rules
               ELSE IF md = "fusion"
                    THEN train_fusion(GroupByType(made.rules, <<>>), threshold, <<>>)
               ELSE ExtendAll(GroupByType(made.rules, <<>>), <<>>)]

\* train without self.rules = []: the rules made are added to the RuleStore.
train_appending(c, rs, data, kn, ver, md, threshold) ==
    [Stored(TrainLoop(c, data, kn, ver = "old", <<>>), ver, md, threshold)
        EXCEPT !.rules = rs \o @]

\* train that leaves self.rules = [] out in knn mode: the rules made extend
\* the RuleStore.
train_extending_knn(c, rs, data, kn, ver, md, threshold) ==
    IF ver = "old" /\ md = "fusion"
    THEN Stored(TrainLoop(c, data, kn, ver = "old", <<>>), ver, md, threshold)
    ELSE [Stored(TrainLoop(c, data, kn, ver = "old", <<>>), ver, md, threshold)
             EXCEPT !.rules = rs \o @]

\* train(train_data) on a GRASPit whose RuleStore is rs: the cache and the
\* RuleStore after the call.  Both programs start from an empty list.
train(c, rs, data, kn, ver, md, threshold) ==
    Stored(TrainLoop(c, data, kn, ver = "old", <<>>), ver, md, threshold)

\* predict(a, b, top_n) on the sets extract_pair returned
predict(set_a, set_b, top_n, rs, ver, md, kk) ==
    IF ver = "current" \/ md = "knn"
    THEN predict_knn(set_a, set_b, top_n, rs, kk)
    ELSE predict_best_match(set_a, set_b, top_n, rs)

\* The terms of the examples of data
TermsOf(data) == UNION {{data[n][1], data[n][2]} : n \in DOMAIN data}

Uncached(T) == {t \in T : cache[t] = <<>>}

Init ==
    /\ fmemo = [sim |-> SimTable(Cardinality(AllSymbols)), norm |-> <<>>]
    /\ SimIdle
    /\ FuseIdle
    /\ rules = <<>>
    /\ fusion_threshold = FHalf(FOne)
    /\ cache = [t \in Terms |-> <<>>]
    /\ \/ version = "current" /\ mode = "knn" /\ k_neighbours \in Ks
       \/ version = "old" /\ mode = "knn" /\ k_neighbours \in Ks
       \/ version = "old" /\ mode = "fusion" /\ k_neighbours = DefaultK
    /\ train_data = <<>>
    /\ pc = "idle"
    /\ ret = <<>>
    /\ first = <<>>
    /\ reads = [t \in Terms |-> NoReads]
    /\ arg_set_a = {}
    /\ arg_set_b = {}
    /\ NoThreads
    /\ ClientIdle
    /\ trains = 0

\* The reads of the client after the loop of train over data
RECURSIVE TrainReads(_, _, _, _)
TrainReads(c, r, data, kn) ==
    IF data = <<>> THEN r
    ELSE TrainReads(extract(extract(c, Head(data)[1], kn), Head(data)[2], kn),
                    extract_pair_reads(c, r, Head(data)[1], Head(data)[2], kn),
                    Tail(data), kn)

\* The cache and the RuleStore as train leaves them
Trained(t) == cache' = t.cache /\ rules' = t.rules

\* train(data); the client has data on the terms of kn
Train ==
    /\ pc = "idle"
    /\ \E data \in SeqsUpTo(Corpus, MaxTrain) :
         \E kn \in SUBSET Uncached(TermsOf(data)) :
           /\ Trained(train(cache, rules, data, kn, version, mode, fusion_threshold))
           /\ reads' = TrainReads(cache, reads, data, kn)
           /\ train_data' = data
    /\ trains' = IF trains < MaxTrainCalls THEN trains + 1 ELSE trains
    /\ first' = <<>>
    /\ UNCHANGED <<fmemo, simVars, fuseVars, fusion_threshold, version, mode,
                   k_neighbours, pc, ret, arg_set_a, arg_set_b, threadVars, clientVars>>

\* The call predict(q[1], q[2], top_n): its arguments, the value it returns,
\* the cache after it, and whether it comes after another call with the
\* RuleStore and the cache unchanged.  p is what extract_pair returned.
PredictCall(p, q, top_n) ==
    [a |-> q[1], b |-> q[2], top_n |-> top_n,
     value |-> predict(p.set_a, p.set_b, top_n, rules, version, mode, k_neighbours),
     cache |-> p.cache,
     again |-> first /= <<>> /\ p.cache = cache]

\* The cache, the call that returned and the first call, after the call
Predicted(call) ==
    /\ cache' = call.cache
    /\ ret' = <<call>>
    /\ first' = IF first = <<>> \/ call.cache /= cache THEN <<call>> ELSE first

\* predict(a, b, top_n) runs and returns
Predict ==
    /\ pc = "idle"
    /\ \E q \in Queries, top_n \in TopNs :
         \E kn \in SUBSET Uncached({q[1], q[2]}) :
           /\ Predicted(PredictCall(extract_pair(cache, q[1], q[2], kn, version = "old"),
                                    q, top_n))
           /\ reads' = extract_pair_reads(cache, reads, q[1], q[2], kn)
    /\ pc' = "returned"
    /\ UNCHANGED <<fmemo, simVars, fuseVars, rules, fusion_threshold, version,
                   mode, k_neighbours, train_data, arg_set_a, arg_set_b, threadVars, trains, clientVars>>

\* The call predict_2(q[1], q[2], top_n) or predict_explain(q[1], q[2],
\* top_n): its arguments, the list it returns and the cache after it.  p is
\* what extract_pair returned.
ExplainCall(p, q, top_n) ==
    [a |-> q[1], b |-> q[2], top_n |-> top_n,
     value |-> Returned(FALSE, predict_explain(p.set_a, p.set_b, top_n, rules, version,
                                               mode, k_neighbours)),
     cache |-> p.cache,
     again |-> FALSE]

Explained(call) ==
    /\ cache' = call.cache
    /\ ret' = <<call>>
    /\ first' = IF call.cache /= cache THEN <<>> ELSE first

\* predict_2(a, b, top_n) or predict_explain(a, b, top_n) runs and returns
Explain ==
    /\ pc = "idle"
    /\ \E q \in Queries, top_n \in TopNs :
         \E kn \in SUBSET Uncached({q[1], q[2]}) :
           /\ Explained(ExplainCall(extract_pair(cache, q[1], q[2], kn, version = "old"),
                                    q, top_n))
           /\ reads' = extract_pair_reads(cache, reads, q[1], q[2], kn)
    /\ pc' = "explained"
    /\ UNCHANGED <<fmemo, simVars, fuseVars, rules, fusion_threshold, version,
                   mode, k_neighbours, train_data, arg_set_a, arg_set_b, threadVars, trains, clientVars>>

\* The caller takes the value
Return ==
    /\ pc \in {"returned", "explained"}
    /\ pc' = "idle"
    /\ ret' = <<>>
    /\ UNCHANGED <<fmemo, simVars, fuseVars, rules, fusion_threshold, cache,
                   version, mode, k_neighbours, train_data, first, reads,
                   arg_set_a, arg_set_b, threadVars, trains, clientVars>>

\* extractor.extract(word) on a term that is not in the cache
Extract ==
    /\ pc = "idle"
    /\ \E word \in Uncached(Terms), known \in BOOLEAN :
         /\ cache' = extract(cache, word, IF known THEN {word} ELSE {})
         /\ reads' = extract_reads(cache, reads, word)
    /\ first' = <<>>
    /\ UNCHANGED <<fmemo, simVars, fuseVars, rules, fusion_threshold, version,
                   mode, k_neighbours, train_data, pc, ret, arg_set_a, arg_set_b, threadVars, trains, clientVars>>

Next == Train \/ Predict \/ Explain \/ Return \/ Extract

Spec == Init /\ [][Next]_vars

(***************************************************************************)
(* Two threads call extract(word) on one SignatureExtractor, for the same  *)
(* term; a thread may be switched out between any two statements.  The     *)
(* client answers both threads alike.                                      *)
(***************************************************************************)
RaceInit ==
    /\ fmemo = [sim |-> <<>>, norm |-> <<>>]
    /\ SimIdle
    /\ FuseIdle
    /\ rules = <<>>
    /\ fusion_threshold = FHalf(FOne)
    /\ cache = [t \in Terms |-> <<>>]
    /\ reads = [t \in Terms |-> NoReads]
    /\ version \in {"current", "old"}
    /\ mode = "knn"
    /\ k_neighbours = DefaultK
    /\ train_data = <<>>
    /\ pc = "idle"
    /\ ret = <<>>
    /\ first = <<>>
    /\ arg_set_a = {}
    /\ arg_set_b = {}
    /\ t_word \in Terms
    /\ t_known \in BOOLEAN
    /\ t_pc = [th \in Threads |-> "call"]
    /\ t_sig = [th \in Threads |-> Signature({}, {}, {})]
    /\ t_ret = [th \in Threads |-> <<>>]
    /\ trains = 0
    /\ ClientIdle

RaceFrame ==
    UNCHANGED <<fmemo, simVars, fuseVars, rules, fusion_threshold, version, mode,
                k_neighbours, train_data, pc, ret, first, arg_set_a, arg_set_b,
                t_word, t_known, trains, clientVars>>

\* if word in self._cache: return self._cache[word]
ExtractHit(th) ==
    /\ t_pc[th] = "call"
    /\ cache[t_word] /= <<>>
    /\ t_ret' = [t_ret EXCEPT ![th] = cache[t_word]]
    /\ t_pc' = [t_pc EXCEPT ![th] = "done"]
    /\ UNCHANGED <<cache, reads, t_sig>>
    /\ RaceFrame

\* the test fails: sig = Signature()
ExtractMiss(th) ==
    /\ t_pc[th] = "call"
    /\ cache[t_word] = <<>>
    /\ t_sig' = [t_sig EXCEPT ![th] = Signature({}, {}, {})]
    /\ t_pc' = [t_pc EXCEPT ![th] = "hyp"]
    /\ UNCHANGED <<cache, reads, t_ret>>
    /\ RaceFrame

\* hyp = self.client.get_hyperonyms(word); sig.hyperonyms = ...
ExtractHyperonyms(th) ==
    /\ t_pc[th] = "hyp"
    /\ reads' = [reads EXCEPT ![t_word].get_hyperonyms = @ + 1]
    /\ t_sig' = [t_sig EXCEPT ![th].hyperonyms = BuildSignature(t_word, t_known).hyperonyms]
    /\ t_pc' = [t_pc EXCEPT ![th] = "sem"]
    /\ UNCHANGED <<cache, t_ret>>
    /\ RaceFrame

\* sem = self.client.get_infosem(word); sig.sst = set(sem.keys())
ExtractInfosem(th) ==
    /\ t_pc[th] = "sem"
    /\ reads' = [reads EXCEPT ![t_word].get_infosem = @ + 1]
    /\ t_sig' = [t_sig EXCEPT ![th].sst = BuildSignature(t_word, t_known).sst]
    /\ t_pc' = [t_pc EXCEPT ![th] = "trt"]
    /\ UNCHANGED <<cache, t_ret>>
    /\ RaceFrame

\* all_types = self.client.get_relation_types_present(word); sig.trt = ...
ExtractTypes(th) ==
    /\ t_pc[th] = "trt"
    /\ reads' = [reads EXCEPT ![t_word].get_relation_types_present = @ + 1]
    /\ t_sig' = [t_sig EXCEPT ![th].trt = BuildSignature(t_word, t_known).trt]
    /\ t_pc' = [t_pc EXCEPT ![th] = "write"]
    /\ UNCHANGED <<cache, t_ret>>
    /\ RaceFrame

\* self._cache[word] = sig; return sig
ExtractWrite(th) ==
    /\ t_pc[th] = "write"
    /\ cache' = [cache EXCEPT ![t_word] = <<t_sig[th]>>]
    /\ t_ret' = [t_ret EXCEPT ![th] = <<t_sig[th]>>]
    /\ t_pc' = [t_pc EXCEPT ![th] = "done"]
    /\ UNCHANGED <<reads, t_sig>>
    /\ RaceFrame

RaceNext ==
    \E th \in Threads :
        \/ ExtractHit(th)
        \/ ExtractMiss(th)
        \/ ExtractHyperonyms(th)
        \/ ExtractInfosem(th)
        \/ ExtractTypes(th)
        \/ ExtractWrite(th)

SpecRace == RaceInit /\ [][RaceNext]_vars

(***************************************************************************)
(* _predict_knn and _predict_best_match on their own: predict from the two *)
(* sets extract_pair returned, on a RuleStore that train can have left.    *)
(***************************************************************************)
MaxPredictRules == 3

\* The program of src/ stores the rules in the order of the examples, with
\* the sets as they come.
KnnLefts == {{"H:meuble"}, {"H:pays"}}
KnnRights == {{"H:matiere"}, {"H:matiere", "H:materiau"}, {"H:lieu"}}
KnnRules == {RuleNoWeight(l, r, rt) : l \in KnnLefts, r \in KnnRights, rt \in RelTypes}
KnnNeighbours == {0, 1, 2, 3}

\* The program of src/old in fusion mode: every right set holds a DEF token,
\* the rules of a type follow each other, the weight of a rule is the number
\* of examples it is made of, and no two rules of a type reach the threshold.
FusionLefts == {{"H:meuble"}, {"H:meuble", "H:siege", "TRT:6"}}
FusionRights == {{"DEF:NONE"}, {"H:matiere", "H:materiau", "DEF:NONE"}}
FusionRules ==
    {Rule(l, r, rt, FFromNat(w)) :
        l \in FusionLefts, r \in FusionRights, rt \in RelTypes, w \in {1, 2}}

GroupedByType(rs) ==
    \A i, j \in DOMAIN rs : (i < j /\ rs[i].rt = rs[j].rt) =>
        \A n \in i..j : rs[n].rt = rs[i].rt

Fused(rs, threshold) ==
    \A i, j \in DOMAIN rs : (i /= j /\ rs[i].rt = rs[j].rt) =>
        FLt(rule_similarity(rs[i], rs[j]), threshold)

PredictSymbols ==
    UNION (KnnLefts \cup KnnRights \cup FusionLefts \cup FusionRights)

PredictInit ==
    /\ NoThreads
    /\ ClientIdle
    /\ trains = 0
    /\ fmemo = [sim |-> SimTable(Cardinality(PredictSymbols)), norm |-> <<>>]
    /\ SimIdle
    /\ FuseIdle
    /\ fusion_threshold = FHalf(FOne)
    /\ cache = [t \in Terms |-> <<>>]
    /\ reads = [t \in Terms |-> NoReads]
    /\ train_data = <<>>
    /\ pc = "idle"
    /\ ret = <<>>
    /\ first = <<>>
    /\ \/ /\ version = "current" /\ mode = "knn"
          /\ k_neighbours \in KnnNeighbours
          /\ rules \in SeqsUpTo(KnnRules, MaxPredictRules)
          /\ arg_set_a = {"H:meuble"}
          /\ arg_set_b \in {{"H:matiere"}, {"H:matiere", "H:materiau"}}
       \/ /\ version = "old" /\ mode = "fusion"
          /\ k_neighbours \in {1, DefaultK}
          /\ rules \in {rs \in SeqsUpTo(FusionRules, MaxPredictRules) :
                            GroupedByType(rs) /\ Fused(rs, fusion_threshold)}
          /\ arg_set_a \in FusionLefts
          /\ arg_set_b \in FusionRights

\* _predict_knn(set_a, set_b, top_n) or _predict_best_match(set_a, set_b,
\* top_n) runs and returns
PredictSets ==
    /\ pc = "idle"
    /\ \E top_n \in TopNs :
         ret' = <<[top_n |-> top_n,
                   value |-> predict(arg_set_a, arg_set_b, top_n, rules, version, mode,
                                     k_neighbours)]>>
    /\ pc' = "returned"
    /\ UNCHANGED <<fmemo, simVars, fuseVars, rules, fusion_threshold, cache, version,
                   mode, k_neighbours, train_data, first, reads, arg_set_a, arg_set_b, threadVars, trains, clientVars>>

\* predict_2 or predict_explain, from the two sets on, runs and returns
ExplainSets ==
    /\ pc = "idle"
    /\ \E top_n \in TopNs :
         ret' = <<[top_n |-> top_n,
                   value |-> Returned(FALSE,
                                      predict_explain(arg_set_a, arg_set_b, top_n, rules,
                                                      version, mode, k_neighbours))]>>
    /\ pc' = "explained"
    /\ UNCHANGED <<fmemo, simVars, fuseVars, rules, fusion_threshold, cache, version,
                   mode, k_neighbours, train_data, first, reads, arg_set_a, arg_set_b,
                   threadVars, trains, clientVars>>

PredictNext == PredictSets \/ ExplainSets \/ Return

SpecPredict == PredictInit /\ [][PredictNext]_vars

(***************************************************************************)
(* A JDMClient at work: get_relations calls, and new clients made on the   *)
(* same cache_dir.                                                         *)
(***************************************************************************)
ClientInit ==
    /\ fmemo = [sim |-> <<>>, norm |-> <<>>]
    /\ SimIdle
    /\ FuseIdle
    /\ rules = <<>>
    /\ fusion_threshold = FHalf(FOne)
    /\ ClassifierNew

ClientFrame ==
    UNCHANGED <<fmemo, simVars, fuseVars, rules, fusion_threshold, cache, version, mode,
                k_neighbours, train_data, pc, ret, first, reads, arg_set_a, arg_set_b,
                threadVars, trains>>

GotRelations(call) ==
    /\ requests + call.sent <= MaxRequests
    /\ memory_cache' = call.memory
    /\ disk_files' = call.disk
    /\ requests' = requests + call.sent
    /\ got' = <<[key |-> call.key, result |-> call.result, sent |-> call.sent,
                 failed |-> call.failed]>>
    /\ failed' = IF call.failed THEN failed \cup {call.key} ELSE failed
    /\ ClientFrame

GetRelations ==
    \E w \in ClientWords, q \in ClientQueries, answers \in [1..retries -> Answers] :
        GotRelations(get_relations(memory_cache, disk_files, w, q[1], q[2], answers))

\* A later run: JDMClient(cache_dir) on the cache_dir as it is left
ClientNew ==
    /\ memory_cache' = [key \in CacheKeys |-> <<>>]
    /\ got' = <<>>
    /\ UNCHANGED <<disk_files, requests, failed>>
    /\ ClientFrame

ClientNext == GetRelations \/ ClientNew

SpecClient == ClientInit /\ [][ClientNext]_vars

(***************************************************************************)
(* Properties of cosine_sim (checked on SpecSim).                          *)
(***************************************************************************)
\* C9: cosine_sim(X, Y) equals cosine_sim(Y, X) for all symbol sets X and Y,
\* the empty ones included, without idf and with an idf dict.
CosineSimSymmetric == (sim12 /= <<>> /\ sim21 /= <<>>) => sim12 = sim21

\* C10: without idf, cosine_sim is 0 when an operand is empty or the sets are
\* disjoint, and lies in (0, 1] otherwise: it never exceeds 1.
UnweightedSimInUnitInterval ==
    (sim12 /= <<>> /\ ~in_idf.given) =>
        IF Range(in_s1) \cap Range(in_s2) = {} THEN sim12[1] = FZero
        ELSE FLt(FZero, sim12[1]) /\ FLe(sim12[1], FOne)

\* C11: for every non-empty symbol set X, the unweighted cosine_sim(X, X) is
\* exactly 1.0.
SelfSimilarityIsOne ==
    (sim12 /= <<>> /\ ~in_idf.given /\ in_s1 /= <<>> /\ Range(in_s1) = Range(in_s2))
        => sim12[1] = FOne

\* The idf dict holds no weight other than 1.0: the empty dict, or 1.0 for
\* the features it holds.
AllWeightsOne ==
    /\ in_idf.given
    /\ \A f \in DOMAIN in_idf.dict : in_idf.dict[f] = FOne

\* C12: with an idf dict that gives 1.0 to every feature, or an empty one
\* (the default 1.0 applies), cosine_sim(s1, s2, idf) is exactly
\* cosine_sim(s1, s2), for all pairs of sets.
UnitWeightsGiveUnweighted ==
    (sim12 /= <<>> /\ AllWeightsOne)
        => sim12[1] = cosine_sim(Range(in_s1), Range(in_s2))

\* cosine_sim(s1, s2, {}) has returned for a set of two symbols and a set of
\* three that holds them: a value that is neither 0.0 nor 1.0.
EmptyIdfOnOverlappingSets ==
    /\ sim12 /= <<>>
    /\ in_idf = [given |-> TRUE, dict |-> <<>>]
    /\ Len(in_s1) = 2 /\ Len(in_s2) = 3
    /\ sim12[1] \notin {FZero, FOne}

(***************************************************************************)
(* Properties of the fusion (checked on SpecFuse).                         *)
(***************************************************************************)
\* sum(r.weight for r in rs)
RECURSIVE WeightSum(_, _)
WeightSum(rs, acc) ==
    IF rs = <<>> THEN acc ELSE WeightSum(Tail(rs), FAdd(acc, Head(rs).weight))

\* C7: _fuse_rules_for_type returns a fixed point: applied to its own output
\* it merges nothing and returns the same rules in the same order, and any
\* two distinct rules of the output have a similarity strictly below the
\* threshold.
FusionIsFixedPoint ==
    f_pc = "return" =>
        /\ fuse_rules_for_type(f_rules, fusion_threshold) = f_rules
        /\ \A i, j \in 1..Len(f_rules) :
               i /= j => FLt(rule_similarity(f_rules[i], f_rules[j]), fusion_threshold)

\* A call of _fuse_rules_for_type has returned at least two rules, one of
\* them merged.
FusedAndDistinctReturned ==
    /\ f_pc = "return"
    /\ Len(f_rules) >= 2
    /\ \E n \in 1..Len(f_rules) : f_rules[n].weight /= FOne

\* C8: for every relation type, the weights of the rules of the type sum to
\* the number of examples of the type that made a rule; this holds for the
\* RuleStore after training in fusion mode, and for the rule list of the
\* type being fused after every pass of the while loop.
FusionPreservesWeight ==
    /\ \A n \in 1..Len(f_by_type) :
           n < f_idx =>
               WeightSum(SelectSeq(rules, LAMBDA r : r.rt = f_by_type[n][1]), FZero)
                   = FFromNat(Len(f_by_type[n][2]))
    /\ f_pc \in {"while", "return"} =>
           WeightSum(f_rules, FZero) = FFromNat(Len(f_by_type[f_idx][2]))

\* Training in fusion mode has ended with a rule made of three examples.
TrainedWithMergedRule ==
    /\ f_pc = "done"
    /\ \E n \in 1..Len(rules) : rules[n].weight = FFromNat(3)

(***************************************************************************)
(* Properties of the classifier (checked on Spec).                         *)
(***************************************************************************)
\* ("unknown", 0.0) for top_n = 1, [] otherwise
Unknown(top_n) ==
    IF top_n = 1 THEN Returned(TRUE, << <<"unknown", FZero>> >>)
    ELSE Returned(FALSE, <<>>)

KnnMode == version = "current" \/ mode = "knn"

\* The two sets extract_pair gives for the pair of the call that returned
\* (its two terms are in the cache).
QuerySets == extract_pair(cache, ret[1].a, ret[1].b, {}, version = "old")

\* C1: on an empty RuleStore (never trained, or trained on data that made no
\* rule) predict returns ("unknown", 0.0) for top_n = 1 and the empty list
\* for top_n > 1, for every pair of terms and in both modes.
EmptyRuleStoreGivesUnknown ==
    (pc = "returned" /\ rules = <<>>) => ret[1].value = Unknown(ret[1].top_n)

\* predict(a, b, 2) has returned in fusion mode from a GRASPit that holds no
\* rule.
PredictedOnEmptyRuleStore ==
    /\ pc = "returned"
    /\ rules = <<>>
    /\ version = "old" /\ mode = "fusion"
    /\ ret[1].top_n = 2

\* C2: in knn mode with k <= 0 (zero or negative), predict(a, b, 1) returns
\* ("unknown", 0.0) whatever the RuleStore.
NonPositiveKGivesUnknown ==
    (pc = "returned" /\ KnnMode /\ k_neighbours <= 0 /\ ret[1].top_n = 1)
        => ret[1].value = Unknown(1)

\* C3: when no rule of the RuleStore has a nonzero score for the pair,
\* predict returns ("unknown", 0.0) for top_n = 1 and the empty list for
\* top_n > 1, never a relation type with the score 0.
NoScoreGivesUnknown ==
    pc = "returned" =>
        LET scored == ScoreRules(QuerySets.set_a, QuerySets.set_b, rules)
        IN  (\A n \in DOMAIN scored : scored[n].score = FZero)
                => ret[1].value = Unknown(ret[1].top_n)

\* C4: after train in knn mode the RuleStore holds one rule for each example
\* with a term of non-empty signature, and none for the examples whose two
\* terms both have an empty signature.
TrainSkipsExactlyEmptyPairs ==
    (pc = "idle" /\ KnnMode) =>
        Len(rules) = Cardinality({n \in DOMAIN train_data :
                          \/ to_set(cache[train_data[n][1]][1]) /= {}
                          \/ to_set(cache[train_data[n][2]][1]) /= {}})

\* C5: every label predict returns, alone or in a ranked list, is "unknown"
\* or the relation type of an example of the last training data.
LabelsComeFromTraining ==
    pc = "returned" =>
        \A n \in DOMAIN ret[1].value.items :
            ret[1].value.items[n][1]
                \in {"unknown"} \cup {train_data[m][3] : m \in DOMAIN train_data}

\* predict(a, b, 2) has returned two relation types.
TwoLabelsReturned ==
    /\ pc = "returned"
    /\ ret[1].top_n = 2
    /\ Len(ret[1].value.items) = 2

\* The call that returned repeats the first call since the RuleStore and the
\* cache last changed.
RepeatsFirstCall ==
    /\ pc = "returned"
    /\ ret[1].again
    /\ ret[1].a = first[1].a
    /\ ret[1].b = first[1].b
    /\ ret[1].top_n = first[1].top_n

ReadOncePerTerm ==
    /\ [](\A t \in Terms :
            /\ reads[t] \in {NoReads, OneMoreEach(NoReads)}
            /\ reads[t] = NoReads <=> cache[t] = <<>>)
    /\ [][\A t \in Terms : cache[t] /= <<>> => cache'[t] = cache[t]]_vars

\* predict has returned for two terms that were in the cache before the call,
\* one that the client knew and one that it did not.
PredictedFromCache ==
    /\ pc = "returned"
    /\ ret[1].again
    /\ to_set(cache[ret[1].a][1]) /= {}
    /\ to_set(cache[ret[1].b][1]) = {}
    /\ reads[ret[1].a] = OneMoreEach(NoReads)
    /\ reads[ret[1].b] = OneMoreEach(NoReads)


\* The place of the first rule of a type in the RuleStore
FirstRuleOf(rs, rt) ==
    CHOOSE i \in DOMAIN rs : rs[i].rt = rt /\ \A j \in 1..(i - 1) : rs[j].rt /= rt

ReturnedItems == ret[1].value.items

\* C14: when two relation types get the same vote or score, predict ranks
\* them in the order in which the types first appear in the RuleStore, in knn
\* mode and in fusion mode.
TiesInRuleStoreOrder ==
    (/\ pc = "returned"
     /\ Len(ReturnedItems) = 2
     /\ ReturnedItems[1][2] = ReturnedItems[2][2])
        => FirstRuleOf(rules, ReturnedItems[1][1]) < FirstRuleOf(rules, ReturnedItems[2][1])


ObjRules == {i \in DOMAIN rules : rules[i].rt = "r_objetmatiere"}
LieuRules == {i \in DOMAIN rules : rules[i].rt = "r_lieu"}

\* The RuleStore after training in knn mode, k = 2, on two r_objetmatiere
\* examples with the same right-hand term and one r_lieu example whose
\* right-hand signature shares no token with theirs.
DemoTrained ==
    /\ KnnMode
    /\ k_neighbours = 2
    /\ Len(rules) = 3
    /\ Cardinality(ObjRules) = 2
    /\ Cardinality(LieuRules) = 1
    /\ \A i, j \in ObjRules : rules[i].sR = rules[j].sR
    /\ \A i \in ObjRules, j \in LieuRules : rules[i].sR \cap rules[j].sR = {}

\* (sim_l + sim_r) / 2.0 of the query against rule i
QueryScore(i) ==
    FHalf(FAdd(cosine_sim(arg_set_a, rules[i].sL), cosine_sim(arg_set_b, rules[i].sR)))

ObjRankedFirst ==
    ReturnedItems /= <<>> /\ ReturnedItems[1][1] = "r_objetmatiere"

\* C15 as stated: after that training, predict with k = 2 ranks
\* r_objetmatiere above r_lieu for every query whose right-hand signature
\* overlaps the r_objetmatiere right-hand signature more than the r_lieu
\* one, whatever the left-hand signatures.
RightOverlapDecides ==
    (/\ pc = "returned"
     /\ DemoTrained
     /\ \A i \in ObjRules, j \in LieuRules :
            FLt(cosine_sim(arg_set_b, rules[j].sR), cosine_sim(arg_set_b, rules[i].sR)))
        => ObjRankedFirst

\* C15 amended: after that training, predict with k = 2 ranks
\* r_objetmatiere above r_lieu for every query whose best r_objetmatiere
\* rule scores higher than the r_lieu rule, the score being the mean of the
\* left-hand and the right-hand similarity.
BestScoreDecides ==
    (/\ pc = "returned"
     /\ DemoTrained
     /\ \E i \in ObjRules : \A j \in LieuRules : FLt(QueryScore(j), QueryScore(i)))
        => ObjRankedFirst

\* predict returned with the r_lieu rule between the two r_objetmatiere
\* rules in score.
LieuRuleAmongTheTwoBest ==
    /\ pc = "returned"
    /\ DemoTrained
    /\ \E i, n \in ObjRules : \A j \in LieuRules :
           FLt(QueryScore(n), QueryScore(j)) /\ FLt(QueryScore(j), QueryScore(i))
    /\ ObjRankedFirst


DefTokens == {"DEF:DEF", "DEF:INDEF", "DEF:NONE"}

\* C16: for every pair (a, b), extract_pair returns a right-hand set with
\* exactly one of the tokens DEF:DEF, DEF:INDEF, DEF:NONE and a left-hand
\* set with no DEF token.
RightSetHasOneDefToken ==
    pc = "returned" =>
        /\ Cardinality(QuerySets.set_b \cap DefTokens) = 1
        /\ QuerySets.set_a \cap DefTokens = {}


\* C17: the definiteness token is never stored in the cache: the cached
\* Signature of a term stays as it was first built, its to_set() holds no DEF
\* token, and the left-hand set of a pair holds none, also when its term was
\* a right-hand operand before.
DefTokenNeverCached ==
    /\ [](\A t \in Terms : cache[t] /= <<>> => to_set(cache[t][1]) \cap DefTokens = {})
    /\ [](pc = "returned" => QuerySets.set_a \cap DefTokens = {})
    /\ [][\A t \in Terms : (cache[t] /= <<>> => cache'[t] = cache[t])
                             /\ (cache[t] = <<>> /\ cache'[t] /= <<>> =>
                                    \E known \in BOOLEAN :
                                        cache'[t][1] = BuildSignature(t, known))]_vars

\* predict of the old version returned for (bois, la France), after bois was
\* the right-hand term of a training example.
RightOperandThenLeft ==
    /\ pc = "returned"
    /\ version = "old"
    /\ ret[1].a = Bois
    /\ \E n \in DOMAIN train_data : train_data[n][2] = Bois
    /\ to_set(cache[Bois][1]) /= {}
    /\ "DEF:DEF" \in QuerySets.set_b


\* The scores of the query against the rules, in RuleStore order
RECURSIVE QueryScores(_)
QueryScores(n) ==
    IF n = 0 THEN <<>> ELSE Append(QueryScores(n - 1), QueryScore(n))

\* Rule i comes before rule j when the rules are ordered by descending score,
\* equal scores kept in RuleStore order.
ScoresBefore(sc, i, j) == FLt(sc[j], sc[i]) \/ (sc[i] = sc[j] /\ i < j)

PlaceByScore(sc, i) == 1 + Cardinality({j \in DOMAIN sc : ScoresBefore(sc, j, i)})

RuleAtPlace(sc, n) == CHOOSE i \in DOMAIN sc : PlaceByScore(sc, i) = n

\* The rules that vote: the first k in that order, all of them when there
\* are fewer than k.
Nearest(sc) == {i \in DOMAIN sc : PlaceByScore(sc, i) <= k_neighbours}

\* The sum of score squared over the rules of type rt among the first n, added
\* up in that order from 0.0.
RECURSIVE SquaredScoreSum(_, _, _)
SquaredScoreSum(sc, rt, n) ==
    IF n = 0 THEN FZero
    ELSE IF rules[RuleAtPlace(sc, n)].rt = rt
         THEN FAdd(SquaredScoreSum(sc, rt, n - 1),
                   FMul(sc[RuleAtPlace(sc, n)], sc[RuleAtPlace(sc, n)]))
         ELSE SquaredScoreSum(sc, rt, n - 1)

ReturnedTypes == {ReturnedItems[n][1] : n \in DOMAIN ReturnedItems}

\* What predict returned, given the scores sc of the rules and the types
\* voted of the rules that vote
KnnReturned(sc, voted) ==
    /\ ReturnedTypes \subseteq voted
    /\ Cardinality(ReturnedTypes) = Len(ReturnedItems)
    /\ \/ Len(ReturnedItems) = ret[1].top_n
       \/ Len(ReturnedItems) < ret[1].top_n /\ ReturnedTypes = voted
    /\ \A n \in DOMAIN ReturnedItems :
           ReturnedItems[n][2] =
               SquaredScoreSum(sc, ReturnedItems[n][1], Cardinality(Nearest(sc)))
    /\ \A n, m \in DOMAIN ReturnedItems :
           n < m => ~FLt(ReturnedItems[n][2], ReturnedItems[m][2])
    /\ \A rt \in voted \ ReturnedTypes :
           ~FLt(ReturnedItems[Len(ReturnedItems)][2],
                SquaredScoreSum(sc, rt, Cardinality(Nearest(sc))))

VotedTypes(sc) == {rules[i].rt : i \in Nearest(sc)}

\* C18: in knn mode, with k >= 1 and a RuleStore that is not empty, predict
\* scores every rule as (sim(set_a, left) + sim(set_b, right)) / 2, orders
\* the rules by descending score with equal scores in RuleStore order, takes
\* the first k (all when fewer), reports for each type the sum of score
\* squared over those of the k rules that carry it, and ranks the types by
\* non-increasing value, the top_n best of them being returned.
KnnVotesAreSquaredScoreSums ==
    (pc = "returned" /\ KnnMode /\ k_neighbours >= 1 /\ rules /= <<>>) =>
        KnnReturned(QueryScores(Len(rules)), VotedTypes(QueryScores(Len(rules))))

\* predict returned two types with different votes, k = 2 of three rules
\* having voted, the third one left out with the score of one that voted.
TwoOfThreeRulesVoted ==
    /\ pc = "returned"
    /\ KnnMode
    /\ Len(rules) = 3
    /\ k_neighbours = 2
    /\ Len(ReturnedItems) = 2
    /\ FLt(ReturnedItems[2][2], ReturnedItems[1][2])
    /\ \E i \in Nearest(QueryScores(3)), j \in 1..3 \ Nearest(QueryScores(3)) :
           QueryScore(i) = QueryScore(j)


FusionMode == version = "old" /\ mode = "fusion"

\* The score x is the greatest of the scores sc of the rules of type rt.
BestScoreOf(sc, rt, x) ==
    /\ \E i \in DOMAIN sc : rules[i].rt = rt /\ sc[i] = x
    /\ \A i \in DOMAIN sc : rules[i].rt = rt => FLe(sc[i], x)

\* What _predict_best_match returned, given the scores sc of the rules
BestMatchReturned(sc) ==
    /\ Cardinality(ReturnedTypes) = Len(ReturnedItems)
    /\ \/ Len(ReturnedItems) = ret[1].top_n
       \/ /\ Len(ReturnedItems) < ret[1].top_n
          /\ ReturnedTypes = {rules[i].rt : i \in DOMAIN rules}
    /\ \A n \in DOMAIN ReturnedItems :
           BestScoreOf(sc, ReturnedItems[n][1], ReturnedItems[n][2])
    /\ \A n, m \in DOMAIN ReturnedItems :
           n < m => FLe(ReturnedItems[m][2], ReturnedItems[n][2])
    /\ \A i \in DOMAIN sc :
           rules[i].rt \notin ReturnedTypes =>
               FLe(sc[i], ReturnedItems[Len(ReturnedItems)][2])

ScoresInUnitInterval ==
    \A n \in DOMAIN ReturnedItems :
        FLe(FZero, ReturnedItems[n][2]) /\ FLe(ReturnedItems[n][2], FOne)

\* C19: in fusion mode predict reports for every relation type of the
\* RuleStore the maximum of the scores of the rules of that type, whatever k
\* and the weights of the rules, ranks the types by non-increasing maximum,
\* and every score it reports lies in [0, 1].
BestMatchScoresInUnitInterval ==
    (pc = "returned" /\ FusionMode /\ rules /= <<>>) =>
        BestMatchReturned(QueryScores(Len(rules))) /\ ScoresInUnitInterval


\* The rules of type rt in the RuleStore, in order
FusedOfType(rt) == SelectSeq(rules, LAMBDA r : r.rt = rt)

\* The raw rules that g assigns to the fused rule n
GroupOf(g, n) == {i \in DOMAIN g : g[i] = n}

\* The rule r has the type rt and the unions of the left and of the right
\* sets of the raw rules of G.
UnionOfGroup(r, rt, raw, G) ==
    /\ G /= {}
    /\ r.rt = rt
    /\ r.sL = UNION {raw[i].sL : i \in G}
    /\ r.sR = UNION {raw[i].sR : i \in G}

\* The rules fused are the unions of the groups of a partition of the rules
\* raw, all of type rt.
FusedFromPartition(rt, raw, fused) ==
    /\ fused /= <<>>
    /\ \E g \in [DOMAIN raw -> DOMAIN fused] :
           \A n \in DOMAIN fused : UnionOfGroup(fused[n], rt, raw, GroupOf(g, n))

\* No two rules of the list reach the threshold.
AllBelowThreshold(rs, threshold) ==
    \A i, j \in DOMAIN rs : i < j => FLt(rule_similarity(rs[i], rs[j]), threshold)

\* C20: fusion merges only rules of the same relation type, and merges
\* exactly when the averaged left/right similarity is >= the threshold
\* (equality merges): a pass merges nothing exactly when every two rules of
\* the list are below the threshold.  After fusion every stored rule has the
\* unions of the left and of the right sets of a group of raw rules of its
\* type, the groups partition the raw rules of that type, and every type
\* with a raw rule keeps at least one rule.
FusionMergesFromThreshold ==
    /\ [](f_pc = "done" =>
            /\ {rules[n].rt : n \in DOMAIN rules} =
                   {f_by_type[n][1] : n \in DOMAIN f_by_type}
            /\ \A n \in DOMAIN f_by_type :
                   FusedFromPartition(f_by_type[n][1], f_by_type[n][2],
                                      FusedOfType(f_by_type[n][1])))
    /\ [][(f_pc = "while" /\ f_changed) =>
            /\ Len(f_rules') = Len(f_rules)
                   <=> AllBelowThreshold(f_rules, fusion_threshold)
            /\ \A n \in DOMAIN f_rules' : f_rules'[n].rt = f_rules[1].rt]_vars

\* The fusion of three raw rules of a type is done with threshold 1.0: two
\* of them, of similarity 1.0, are merged and the third is kept.
MergedAtEquality ==
    /\ f_pc = "done"
    /\ fusion_threshold = FOne
    /\ \E n \in DOMAIN f_by_type :
           /\ Len(f_by_type[n][2]) = 3
           /\ Len(FusedOfType(f_by_type[n][1])) = 2


\* The number of rules _fuse_rules_for_type was called on
FuseInputLen == Len(f_by_type[f_idx][2])

\* C21: the fusion loop terminates for every rule list and threshold: a pass
\* that merges leaves fewer rules than it found, a pass that does not merge
\* leaves the list as long as it was and ends the loop, so n rules take at
\* most n - 1 merging passes and one last pass without a merge, and the loop
\* is left after it.
FusionLoopTerminates ==
    /\ [][(f_pc = "while" /\ f_changed) =>
            IF f_changed' THEN Len(f_rules') < Len(f_rules)
            ELSE Len(f_rules') = Len(f_rules)]_vars
    /\ []((f_pc = "while" /\ f_changed) => f_passes <= FuseInputLen - 1)
    /\ []((f_pc \in {"while", "return"} /\ ~f_changed) => f_passes <= FuseInputLen)
    /\ [](f_pc \in {"while", "return"} => Len(f_rules) >= 1 /\ f_passes >= 0)
    /\ [][(f_pc = "while" /\ ~f_changed) => f_pc' = "return"]_vars

\* Three rules took two merging passes and a last pass without a merge.
ThreePassesOnThreeRules ==
    /\ f_pc = "return"
    /\ FuseInputLen = 3
    /\ f_passes = 3
    /\ Len(f_rules) = 1


\* C22: when two extract calls for the same term interleave, the first write
\* to the term's cache slot wins: once written the slot is never written
\* again, the client is not read again for the term once the slot is filled,
\* and both callers get equal Signatures.
FirstWriterWins ==
    /\ [][\A th \in Threads :
            (t_pc[th] = "write" /\ t_pc'[th] = "done") => cache[t_word] = <<>>]_vars
    /\ [][cache[t_word] /= <<>> => reads'[t_word] = reads[t_word]]_vars
    /\ []((\A th \in Threads : t_pc[th] = "done") => t_ret[1] = t_ret[2])


\* The rules of type rt among those that vote
NearestOfType(sc, rt) == {i \in Nearest(sc) : rules[i].rt = rt}

\* The first of them in the order by descending score
BestOfType(sc, rt) ==
    CHOOSE i \in NearestOfType(sc, rt) :
        \A j \in NearestOfType(sc, rt) : PlaceByScore(sc, i) <= PlaceByScore(sc, j)

SimLeft(i) == cosine_sim(arg_set_a, rules[i].sL)
SimRight(i) == cosine_sim(arg_set_b, rules[i].sR)

\* x is the greatest left (right) similarity of a rule of I
GreatestLeft(I, x) ==
    (\E i \in I : SimLeft(i) = x) /\ (\A i \in I : FLe(SimLeft(i), x))

GreatestRight(I, x) ==
    (\E i \in I : SimRight(i) = x) /\ (\A i \in I : FLe(SimRight(i), x))

\* The vote counts of the first n types reported, added up
RECURSIVE VotesReported(_)
VotesReported(n) ==
    IF n = 0 THEN 0 ELSE VotesReported(n - 1) + ReturnedItems[n][2].votes

\* The types reported are types that voted, each with its count of votes.
VotesCounted(sc) ==
    \A n \in DOMAIN ReturnedItems :
        /\ NearestOfType(sc, ReturnedItems[n][1]) /= {}
        /\ ReturnedItems[n][2].votes = Cardinality(NearestOfType(sc, ReturnedItems[n][1]))

ExplainedGreatestSims(sc) ==
    /\ VotesCounted(sc)
    /\ \A n \in DOMAIN ReturnedItems :
           /\ GreatestLeft(NearestOfType(sc, ReturnedItems[n][1]), ReturnedItems[n][2].sim_A)
           /\ GreatestRight(NearestOfType(sc, ReturnedItems[n][1]), ReturnedItems[n][2].sim_B)
    /\ VotesReported(Len(ReturnedItems)) = Cardinality(Nearest(sc))

ExplainedBestRuleSims(sc) ==
    /\ VotesCounted(sc)
    /\ \A n \in DOMAIN ReturnedItems :
           /\ ReturnedItems[n][2].sim_A = SimLeft(BestOfType(sc, ReturnedItems[n][1]))
           /\ ReturnedItems[n][2].sim_B = SimRight(BestOfType(sc, ReturnedItems[n][1]))
    /\ ret[1].top_n >= Cardinality(VotedTypes(sc)) =>
           VotesReported(Len(ReturnedItems)) = Cardinality(Nearest(sc))

\* C23 as stated: in knn mode the explain variant reports for every ranked
\* type the best single left similarity and the best single right
\* similarity of any of the top-k rules of that type, and a vote count equal
\* to the number of top-k rules of that type, the counts of the reported
\* types summing to min(k, number of stored rules), for k >= 0.
ExplainReportsGreatestSims ==
    (pc = "explained" /\ KnnMode /\ k_neighbours >= 0) =>
        ExplainedGreatestSims(QueryScores(Len(rules)))

\* C23 amended: in knn mode the explain variant reports for every ranked
\* type the left and the right similarity of the best-scoring of the top-k
\* rules of that type (the first in RuleStore order of those that score
\* best), and a vote count equal to the number of top-k rules of that type;
\* the counts of the reported types sum to min(k, number of stored rules),
\* for k >= 0, when top_n is at least the number of types among the top-k
\* rules.
ExplainReportsBestRuleSims ==
    (pc = "explained" /\ KnnMode /\ k_neighbours >= 0) =>
        /\ ExplainedBestRuleSims(QueryScores(Len(rules)))
        /\ Cardinality(Nearest(QueryScores(Len(rules)))) =
               IF k_neighbours < Len(rules) THEN k_neighbours ELSE Len(rules)

\* The explain variant returned a type with two votes whose greatest right
\* similarity is not that of its best-scoring rule.
ExplainedTwoVotesOfAType ==
    /\ pc = "explained"
    /\ KnnMode
    /\ \E n \in DOMAIN ReturnedItems :
           /\ ReturnedItems[n][2].votes = 2
           /\ \E i \in DOMAIN rules :
                  /\ rules[i].rt = ReturnedItems[n][1]
                  /\ FLt(ReturnedItems[n][2].sim_B, SimRight(i))


\* The RuleStore of a GRASPit of the same mode that holds no rule, after
\* train(data) with the extractor as it is
TrainedAlone(c, data) ==
    Stored(TrainLoop(c, data, {}, version = "old", <<>>), version, mode,
           fusion_threshold).rules

\* C24: train replaces the RuleStore: after train(X) and then train(Y) the
\* rules are those train(Y) alone makes on a classifier with the same
\* extractor, in knn and in fusion mode; predict and the explain variant
\* leave the RuleStore as it is.
TrainReplacesRuleStore ==
    /\ [][trains' /= trains \/ train_data' /= train_data \/ rules' /= rules =>
            rules' = TrainedAlone(cache', train_data')]_vars
    /\ [][pc' \in {"returned", "explained"} => rules' = rules]_vars
    /\ [](trains = 0 => rules = <<>>)

\* train has been called twice, the RuleStore holds the one rule of the
\* last training, and the explain variant has run on it.
TrainedTwice ==
    /\ trains = 2
    /\ Len(train_data) = 1
    /\ Len(rules) = 1
    /\ pc = "explained"


\* C25: a fetch that fails (a 404, or an error on each of the retries
\* attempts) is stored in the memory cache and on disk as the empty result,
\* and every later get_relations call of the same key returns the empty
\* result without a request: the failure is never retried.
FailedFetchStaysUnknown ==
    /\ [][(got' /= <<>> /\ got'[1].failed) =>
            /\ got'[1].result = EmptyResult
            /\ memory_cache'[got'[1].key] = <<EmptyResult>>
            /\ disk_files'[got'[1].key] = <<dump(EmptyResult)>>]_vars
    /\ [][(got' /= <<>> /\ got'[1].key \in failed) =>
            /\ got'[1].result = EmptyResult
            /\ got'[1].sent = 0
            /\ requests' = requests]_vars
    /\ [](\A key \in failed :
            /\ memory_cache[key] \in {<<>>, <<EmptyResult>>}
            /\ disk_files[key] = <<dump(EmptyResult)>>)

\* get_relations has answered from the cache for a key whose fetch failed
\* on all three attempts.
AnsweredAfterFailedFetch ==
    /\ got /= <<>>
    /\ got[1].key \in failed
    /\ ~got[1].failed
    /\ got[1].sent = 0
    /\ requests = retries

====
